---- MODULE Spec2Model ----
(***************************************************************************)
(* Model of the negotiation orchestrator of backend/state_machine.py, the   *)
(* control-surface handlers of backend/app.py that reach it, and the driver *)
(* operations of backend/playwright_driver.py it awaits.                    *)
(*                                                                          *)
(* The program is single-threaded asyncio code.  One action of the model is *)
(* the code a coroutine runs between two suspension points (awaits that can *)
(* yield): it is atomic in the program, too.  A task's pc names the await   *)
(* it is suspended in; the action that resumes it draws the outcome of the  *)
(* awaited call and runs the code up to the next await.                     *)
(*                                                                          *)
(* Where start() awaits manager.broadcast(...) between the return of a      *)
(* driver call and its own raise or return, nothing is read or written      *)
(* before the broadcast, so the return of the driver call and the code      *)
(* after the broadcast are one action.                                      *)
(*                                                                          *)
(* Spec is the orchestrator under callers that start, stop and confirm      *)
(* gates; SpecGates is the gate registry under an operator who opens and    *)
(* resets any gate at any time; SpecReply is generate_next_reply of         *)
(* backend/ai_client.py as a function of its arguments; SpecLive is start() *)
(* with every awaited call succeeding, under fair scheduling; SpecGoto is   *)
(* goto_product() on a session that start_login_only() left ready.          *)
(***************************************************************************)
EXTENDS Integers, Sequences, FiniteSets, TLC

(* ------------------------------ bounds --------------------------------- *)
\* number of start()/start_login_only() calls of one behaviour
MaxTasks == 2
\* number of stop requests that may queue for the lock behind a running cancel()
MaxQueuedCancels == 1
\* number of awaited calls of one behaviour that take another course than
\* their usual one (a navigation that fails, a chat that does not open, a
\* gate wait that times out, ...)
MaxFaults == 1
\* number of stop requests of one behaviour that find the lock free
MaxStops == 1

\* length of the history passed to the Reply Generator
MaxHistory == 5

Tasks == 1..MaxTasks

(* ------------------------------ values --------------------------------- *)
None == "None"
NoId == 0          \* session_id None
NoHandle == 0      \* no browser handle
ManagedPage == 1   \* the page get_or_new_page() manages (driver global _page)

GateNames == {"CONFIRM_AFTER_LOGIN", "CONFIRM_PRODUCT_AND_CHAT", "CONFIRM_AFTER_SEND"}
InternalKeys == {"_pw", "_browser", "_context", "_page"}
FALLBACK_REPLY == "fallback_ack"

\* the (product_url, opener_text, max_turns, style) the callers pass: each
\* call of a behaviour passes another request
Requests ==
  << [product_url |-> "url_a", opener_text |-> "opener_a", max_turns |-> 0, style |-> "Aggressive"],
     [product_url |-> "url_b", opener_text |-> "opener_b", max_turns |-> 2, style |-> "Polite"],
     [product_url |-> "url_c", opener_text |-> "opener_c", max_turns |-> 6, style |-> "Aggressive"] >>

RequestOf(t) == Requests[((t - 1) % Len(Requests)) + 1]

NoRequest == [product_url |-> None, opener_text |-> None, max_turns |-> 0, style |-> None]

(* --------------------------- python dicts ------------------------------ *)
\* d.update(u)
Update(d, u) == [k \in (DOMAIN d) \cup (DOMAIN u) |-> IF k \in DOMAIN u THEN u[k] ELSE d[k]]
\* for k in K: d.pop(k, None)
Pop(d, K) == [k \in (DOMAIN d) \ K |-> d[k]]
\* bool(d.get(k)) for a handle-valued key
Has(d, k) == k \in DOMAIN d
\* a test that takes no key for an internal one
NoKeyIsInternal(k) == FALSE

\* k.startswith("_")
StartsWithUnderscore(k) == k \in InternalKeys

VARIABLES
  AUTO_ADVANCE,        \* module constant read from the environment at import
  _state,              \* the session dict
  current_session_obj, \* attribute view of _state, refreshed on every save
  files,               \* session id -> contents of sessions/<id>/status.json
  stage_log,           \* session id -> summary of the step values written to that file
  _gates,              \* gate name -> is_set() of the Event registered under it
  _lock,               \* asyncio.Lock: locked flag and FIFO of waiters
  clock,               \* wall clock, in seconds that separate two id allocations
  task,                \* the start()/start_login_only() coroutines
  next_task,           \* the next unused coroutine slot
  canceller,           \* the cancel() coroutine started by a stop request
  open_browsers,       \* browser handles whose browser process is alive
  faults,              \* awaited calls that did not take their usual course so far
  stops,               \* stop requests that found the lock free so far
  ai_call,             \* the arguments and environment of a generate_next_reply call
  ai_result            \* what that call returned

vars == <<AUTO_ADVANCE, _state, current_session_obj, files, stage_log, _gates, _lock,
          clock, task, next_task, canceller, open_browsers, faults, stops,
          ai_call, ai_result>>

(* ------------------------------ session -------------------------------- *)
InitialState ==
  [k \in {"session_id", "status", "step", "turn", "max_turns", "product_url",
          "opener_text", "last_error", "reply", "started_at", "finished_at"} |->
     CASE k = "session_id" -> NoId
       [] k = "status" -> "idle"
       [] k = "turn" -> 0
       [] k = "max_turns" -> 6
       [] k = "started_at" -> 0
       [] OTHER -> None]

\* _sync_current_session_obj
SyncCurrentSessionObj(st) ==
  [id |-> st["session_id"], status |-> st["status"], current_state |-> st["step"],
   turn |-> st["turn"], max_turns |-> st["max_turns"], product_url |-> st["product_url"],
   opener_text |-> st["opener_text"], last_error |-> st["last_error"],
   reply |-> st["reply"], started_at |-> st["started_at"],
   finished_at |-> st["finished_at"]]

\* snap = {k: v for k, v in _state.items() if not k.startswith("_")}
Snapshot(st) == [k \in {x \in DOMAIN st : ~StartsWithUnderscore(x)} |-> st[k]]

\* get_status()
GetStatus == Snapshot(_state)

\* is_running()
IsRunning == _state["status"] = "running"

\* get_current_session()
GetCurrentSession ==
  [active |-> _state["status"] = "running",
   session |-> IF _state["session_id"] # NoId THEN Snapshot(_state) ELSE << >>]

\* _new_session_id(): the current time, truncated to the second
NewSessionId == clock

\* time passes in a call that sleeps a second or more: ids drawn before and
\* after it differ
Elapse == IF clock = _state["session_id"] THEN clock + 1 ELSE clock

\* a save that writes status.json only when the file does not exist yet
SaveFileOnce(fs, st) ==
  IF st["session_id"] = NoId \/ st["session_id"] \in DOMAIN fs THEN fs
  ELSE Update(fs, (st["session_id"] :> Snapshot(st)))

\* one _save_session_snapshot() on the files: nothing without a session id
SaveFile(fs, st) ==
  IF st["session_id"] = NoId THEN fs
  ELSE Update(fs, (st["session_id"] :> Snapshot(st)))

\* the order of the stages of a run of start()
StageOrder == <<"INIT", "LAUNCH_BROWSER", "S0_DONE", "S1_DONE", "DONE">>

StageRank(step) ==
  IF \E i \in 1..Len(StageOrder) : StageOrder[i] = step
  THEN CHOOSE i \in 1..Len(StageOrder) : StageOrder[i] = step
  ELSE 0

NoLog == [written |-> {}, last |-> 0, ordered |-> TRUE]

\* the history of the step values written to a status.json, kept as: the set
\* of values written, the rank of the last stage of StageOrder written, and
\* whether no stage of StageOrder was written after one of higher rank
SaveLog(lg, st) ==
  IF st["session_id"] = NoId THEN lg
  ELSE LET sid == st["session_id"]
           old == IF sid \in DOMAIN lg THEN lg[sid] ELSE NoLog
           r   == StageRank(st["step"])
       IN  Update(lg, (sid :> [written |-> old.written \cup {st["step"]},
                               last    |-> IF r = 0 THEN old.last ELSE r,
                               ordered |-> old.ordered /\ (r = 0 \/ r >= old.last)]))

RECURSIVE SaveFiles(_, _)
SaveFiles(fs, saves) ==
  IF saves = << >> THEN fs ELSE SaveFiles(SaveFile(fs, Head(saves)), Tail(saves))

RECURSIVE SaveLogs(_, _)
SaveLogs(lg, saves) ==
  IF saves = << >> THEN lg ELSE SaveLogs(SaveLog(lg, Head(saves)), Tail(saves))

\* The effect of an atomic stretch of code on the session: saves lists the
\* values of _state at each _save_session_snapshot() call of the stretch, in
\* order, and final is _state at its end.
Commit(saves, final) ==
  /\ _state' = final
  /\ files' = SaveFiles(files, saves)
  /\ stage_log' = SaveLogs(stage_log, saves)
  /\ current_session_obj' =
       IF saves = << >> \/ saves[Len(saves)]["session_id"] = NoId
       THEN current_session_obj
       ELSE SyncCurrentSessionObj(saves[Len(saves)])

NoCommit == UNCHANGED <<_state, files, stage_log, current_session_obj>>

(* ------------------------------- gates --------------------------------- *)
\* _get_gate(name): the Event registered under name, created unset on first use
GetGate(g, name) == IF name \in DOMAIN g THEN g ELSE Update(g, (name :> FALSE))

\* open_gate(name): _get_gate(name).set()
OpenGateOn(g, name) == Update(GetGate(g, name), (name :> TRUE))

\* a reset_gate that keeps the Event registered under name as it is
ResetGateKeeps(g, name) == GetGate(g, name)

\* reset_gate(name): a set Event is replaced by a fresh one; an unset one is kept
ResetGateOn(g, name) ==
  LET r == GetGate(g, name)
  IN  IF r[name] THEN Update(r, (name :> FALSE)) ELSE r

(* ------------------- ai_client.generate_next_reply --------------------- *)
NoCall == [made |-> FALSE]
NoResult == [returned |-> FALSE]

\* the supplier texts of the calls: English and Chinese texts that hold
\* keywords of one or two of the groups _generate_mock_response looks for,
\* texts that hold none, and the empty text
SupplierTexts ==
  {"what is the price", "price 100 yuan", "jiage shi 100 yuan (zh)", "moq 500",
   "lead time 7 days", "quality standard", "oem custom", "sample fee", "hello",
   "ganxie nin de zixun (zh)", ""}

\* the keyword groups a supplier text holds a keyword of, after lower()
SupplierKeywords(text) ==
  CASE text = "what is the price" -> {"question", "price"}
    [] text = "price 100 yuan" -> {"price"}
    [] text = "jiage shi 100 yuan (zh)" -> {"price"}
    [] text = "moq 500" -> {"moq"}
    [] text = "lead time 7 days" -> {"lead_time"}
    [] text = "quality standard" -> {"quality"}
    [] text = "oem custom" -> {"custom"}
    [] text = "sample fee" -> {"sample"}
    [] OTHER -> {}

\* any(c in text for c in "的你了是在有我他对她这那之个得地")
HasChinese(text) == text \in {"jiage shi 100 yuan (zh)", "ganxie nin de zixun (zh)", "ni hao (zh)"}

\* the messages a history is made of: with role and text, or without a role
Messages ==
  {[role |-> "user", text |-> "hello"], [role |-> "user", text |-> "ni hao (zh)"],
   [text |-> "hello"]}

\* the histories of the calls: the function reads their length, the keys of
\* their messages and the text of the first one, so they repeat one message
Histories == {[i \in 1..n |-> m] : n \in 0..MaxHistory, m \in Messages}

\* the calls: whether the client is available, what generate_content does
\* when it is called, and the arguments
ReplyCalls ==
  [made : {TRUE}, available : BOOLEAN,
   model : {" ok, send your best price. ", "   ", "", "raise"},
   history : Histories, supplier_text : SupplierTexts,
   goals : {<< >>, [target_price |-> "10"], [style |-> "Aggressive"]},
   locale : {"zh", "en"}]

\* msg.get('text', '')
TextOf(msg) == IF "text" \in DOMAIN msg THEN msg["text"] ELSE ""

\* _generate_mock_response: is_chinese_context
IsChineseContext(call) ==
  \/ call.locale = "zh"
  \/ HasChinese(call.supplier_text)
  \/ Len(call.history) > 0 /\ HasChinese(TextOf(call.history[1]))

\* _generate_mock_response: the reply chosen by the keywords of the supplier
\* text, the stage of the conversation and the goals; each reply is written
\* here by its language and its subject
MockText(call) ==
  LET kw    == SupplierKeywords(call.supplier_text)
      lang  == IF IsChineseContext(call) THEN "zh: " ELSE "en: "
      turns == Len(call.history)
      stage == IF turns <= 2 THEN "early" ELSE IF turns <= 4 THEN "mid" ELSE "late"
  IN  CASE "question" \in kw -> lang \o "evaluating suppliers, send a detailed quotation"
        [] "question" \notin kw /\ "price" \in kw ->
             (CASE stage = "early" -> lang \o "thanks for the price, moq and lead time?"
                [] stage = "mid" -> lang \o "price noted, discount over 1000 pieces?"
                [] OTHER -> lang \o "price confirmed, payment terms?")
        [] kw \cap {"question", "price"} = {} /\ "moq" \in kw ->
             lang \o "moq understood, shipping and taxes included?"
        [] kw \cap {"question", "price", "moq"} = {} /\ "lead_time" \in kw ->
             lang \o "lead time confirmed, sample production time?"
        [] kw \cap {"question", "price", "moq", "lead_time"} = {} /\ "quality" \in kw ->
             lang \o "quality matters, which certifications?"
        [] kw \cap {"question", "price", "moq", "lead_time", "quality"} = {} /\ "custom" \in kw ->
             lang \o "customization can be discussed, costs and moq?"
        [] kw \cap {"question", "price", "moq", "lead_time", "quality", "custom"} = {}
           /\ "sample" \in kw ->
             lang \o "samples needed, sample cost?"
        [] OTHER ->
             (CASE stage = "early" /\ "target_price" \in DOMAIN call.goals ->
                     lang \o "thanks, target price range and bulk discount?"
                [] stage = "early" /\ "target_price" \notin DOMAIN call.goals ->
                     lang \o "thanks, moq, price range and lead time?"
                [] stage = "mid" -> lang \o "understood, payment terms 30/70?"
                [] OTHER -> lang \o "terms confirmed, how long is the quotation valid?")

\* _generate_mock_response: the dict it returns
GenerateMockResponse(call) ==
  [text |-> MockText(call), used_model |-> "mock-enhanced", is_mock |-> TRUE,
   ai_status |-> [is_available |-> call.available, using_mock |-> ~call.available]]

\* str.strip() on the texts generate_content yields
Strip(text) ==
  CASE text = " ok, send your best price. " -> "ok, send your best price."
    [] text = "   " -> ""
    [] OTHER -> text

Raised == [raised |-> TRUE]

\* generate_next_reply: the try block; msg['role'] raises KeyError for a
\* message without a role, and generate_content may raise
TryModel(call) ==
  IF \E i \in 1..Len(call.history) : "role" \notin DOMAIN call.history[i]
  THEN Raised
  ELSE IF call.model = "raise"
  THEN Raised
  ELSE LET text == Strip(call.model)
       IN  IF text = ""
           THEN GenerateMockResponse(call)
           ELSE [text |-> text, used_model |-> "settings.google_model", is_mock |-> FALSE]

\* a generate_next_reply without its except clause
GenerateWithoutExcept(call) ==
  IF ~call.available THEN GenerateMockResponse(call) ELSE TryModel(call)

\* generate_next_reply(history, supplier_text, goals, product_url, locale)
GenerateNextReplyOf(call) ==
  IF ~call.available
  THEN GenerateMockResponse(call)
  ELSE LET r == TryModel(call)
       IN  IF r = Raised THEN GenerateMockResponse(call) ELSE r

(* ------------------------------- tasks --------------------------------- *)
IdleTask ==
  [kind |-> "none", pc |-> "idle", req |-> NoRequest, sid |-> NoId,
   page |-> NoHandle, nav |-> "none", res |-> "none", chat_status |-> "none", gate |-> "none",
   ev_replaced |-> FALSE, supplier_reply |-> None, ai |-> "none",
   fallback_calls |-> 0, sends |-> << >>, unsent |-> << >>, failed |-> FALSE,
   ready |-> "none", login_seen |-> "none", recovered |-> NoHandle,
   chat_page |-> NoHandle, result |-> "none"]
\* recovered: the page of the proxy-less context that reached the product URL;
\* chat_page: the page the chat stages of the coroutine operate on
\* ready: how wait_for_chat_ready ended in the coroutine; login_seen: what the
\* last evaluation of the login predicate in the coroutine found
\* sends: the texts send_on_chat_precise_canonical was called with; unsent:
\* those of them it could not put into the chat
\* failed: an awaited call of the coroutine failed or a gate wait of it raised
\* TimeoutError, the tunnel error of the product navigation apart

Init ==
  /\ AUTO_ADVANCE \in BOOLEAN
  /\ _state = InitialState
  /\ current_session_obj = SyncCurrentSessionObj(InitialState)
  /\ files = << >>
  /\ stage_log = << >>
  /\ _gates = << >>
  /\ _lock = [locked |-> FALSE, waiters |-> << >>]
  /\ clock = 1
  /\ task = [t \in Tasks |-> IdleTask]
  /\ next_task = 1
  /\ canceller = [pc |-> "idle", browser |-> NoHandle]
  /\ open_browsers = {}
  /\ faults = 0
  /\ stops = 0
  /\ ai_call = NoCall
  /\ ai_result = NoResult

(* ----------------------- helpers of the coroutines --------------------- *)
\* the outcomes an awaited call can have now: its usual one, and the others
\* while the behaviour has faults left
Outcomes(usual, others) == IF faults < MaxFaults THEN {usual} \cup others ELSE {usual}

\* the awaited call had outcome o
Drew(o, usual) == faults' = IF o = usual THEN faults ELSE faults + 1

SetTask(t, u) == task' = [task EXCEPT ![t] = Update(@, u)]

\* a wait that takes every Event for set
AnyEventIsSet(t) == TRUE

\* a task's captured Event is set: an Event that reset_gate replaced was set
\* when it was replaced, and no code clears an Event
EventIsSet(t) == task[t].ev_replaced \/ _gates[task[t].gate]

\* a reset_gate(name) that clears the Event in place: the coroutines that wait
\* on it hold the cleared Event
ResetClearsWaiters(tk, name) == tk

\* reset_gate(name) on the registry and on the coroutines that hold the Event
\* registered under name: after it they hold a replaced Event
ResetWaiters(tk, name) ==
  [t \in Tasks |->
     IF tk[t].pc = "gate" /\ tk[t].gate = name /\ name \in DOMAIN _gates /\ _gates[name]
     THEN Update(tk[t], [ev_replaced |-> TRUE]) ELSE tk[t]]

\* int(max_turns or 6)
MaxTurnsArg(m) == IF m = 0 THEN 6 ELSE m

\* a check under the lock that never finds a running session
NeverRunning == FALSE

\* start(): the check under the lock
AlreadyRunning == _state["status"] = "running"

\* start(): the reset of the session fields under the lock
StartFields(req) ==
  [session_id |-> NewSessionId, status |-> "running", step |-> "INIT", turn |-> 0,
   max_turns |-> MaxTurnsArg(req.max_turns), product_url |-> req.product_url,
   opener_text |-> req.opener_text, style |-> req.style, last_error |-> None,
   reply |-> None, started_at |-> clock, finished_at |-> None]

\* start_login_only(): the reset of the session fields under the lock
LoginOnlyFields ==
  [session_id |-> NewSessionId, status |-> "running", step |-> "LOGIN_ONLY_INIT",
   turn |-> 0, max_turns |-> 0, product_url |-> None, opener_text |-> None,
   last_error |-> None, reply |-> None, started_at |-> clock, finished_at |-> None]

SetStep(st, step) == Update(st, [step |-> step])

\* the except clause of start() and start_login_only()
ErrorFields(err) == [status |-> "error", last_error |-> err, finished_at |-> "stamped"]

\* the finally clause of start(): the handle fields are dropped
StartFinally(st) == Pop(st, InternalKeys)

\* start() ends by an exception raised with _state = st: except, then finally
StartRaise(t, st, err) ==
  LET s1 == Update(st, ErrorFields(err))
      s2 == StartFinally(s1)
  IN  /\ Commit(<<s1, s2>>, s2)
      /\ SetTask(t, [pc |-> "done", result |-> "error", failed |-> TRUE])

\* a start() whose return runs the except clause, too
ReturnAsRaise(t, u) ==
  LET s1 == Update(_state, ErrorFields("RuntimeError: chat not opened"))
      s2 == StartFinally(s1)
  IN  /\ Commit(<<s1, s2>>, s2)
      /\ SetTask(t, u)

\* start() ends by a return: finally only
StartFinallyOnly(t, u) ==
  LET s2 == StartFinally(_state)
  IN  /\ Commit(<<s2>>, s2)
      /\ SetTask(t, u)

\* start_login_only() ends by an exception: except, then finally (a save)
LoginOnlyRaise(t, st, err) ==
  LET s1 == Update(st, ErrorFields(err))
  IN  /\ Commit(<<s1, s1>>, s1)
      /\ SetTask(t, [pc |-> "done", result |-> "error", failed |-> TRUE])

\* await _wait_gate(name, timeout) without a reset_gate(name) before it
EnterGateWithoutReset(t, name, u) ==
  /\ _gates' = GetGate(_gates, name)
  /\ task' = [task EXCEPT ![t] = Update(@, Update(u, [pc |-> "gate", gate |-> name,
                                                       ev_replaced |-> FALSE]))]

\* reset_gate(name); await _wait_gate(name, timeout): the coroutine suspends
\* on the Event now registered under name
EnterGate(t, name, u) ==
  /\ _gates' = ResetGateOn(_gates, name)
  /\ task' = [ResetWaiters(task, name) EXCEPT
                ![t] = Update(@, Update(u, [pc |-> "gate", gate |-> name,
                                            ev_replaced |-> FALSE]))]

(* --------------------------- goto_product() ---------------------------- *)
\* the raw product urls POST /api/session/goto-product is called with: one
\* that holds an offer id, one that holds no run of six digits
ProductInputs == {"offer/613245.html?spm=x", "not-an-offer"}

\* normalize_1688_product_url(raw) on ProductInputs
NormalizeProductUrl(raw) ==
  IF raw = "offer/613245.html?spm=x" THEN "https://detail.1688.com/offer/613245.html"
  ELSE "ValueError"

\* the except clause of goto_product(): no finished_at is set
GotoErrorFields(err) == [status |-> "error", last_error |-> err]

\* goto_product() ends by an exception raised with _state = st
GotoRaise(t, st, err) ==
  LET s1 == Update(st, GotoErrorFields(err))
  IN  /\ Commit(<<s1>>, s1)
      /\ SetTask(t, [pc |-> "done", result |-> "error", failed |-> TRUE])

\* goto_product(): the check under the lock
NoReadySession == _state["status"] # "running" \/ _state["step"] # "READY_FOR_PRODUCT"

\* goto_product(raw): the body of "async with _lock" and the code after it up
\* to the first await
GotoBody(t, req) ==
  IF NoReadySession
  THEN /\ task' = [task EXCEPT ![t] = Update(@, [kind |-> "goto_product", req |-> req,
                                                   pc |-> "done", result |-> "rejected"])]
       /\ NoCommit
  ELSE IF NormalizeProductUrl(req.product_url) = "ValueError"
  THEN /\ LET s1 == Update(_state, GotoErrorFields("ValueError: Cannot normalize product url"))
          IN  Commit(<<s1>>, s1)
       /\ task' = [task EXCEPT ![t] = Update(@, [kind |-> "goto_product", req |-> req,
                                                   pc |-> "done", result |-> "error",
                                                   failed |-> TRUE])]
  ELSE /\ task' = [task EXCEPT ![t] = Update(@, [kind |-> "goto_product", req |-> req,
                                                   pc |-> "goto_get_page"])]
       /\ NoCommit

(* --------------------- start(): entry under the lock ------------------- *)
LockFree == ~_lock.locked /\ _lock.waiters = << >>

\* a lock that stays held when the block that acquired it is left
StaysLocked(l) == [l EXCEPT !.locked = TRUE]

\* the exit of "async with _lock": the lock is released
Released(l) == [l EXCEPT !.locked = FALSE]

\* the body of "async with _lock" of start(), start_login_only() and
\* goto_product(), and the code after it up to the first await
BeginBody(t, kind, req) ==
  IF kind = "goto_product" THEN GotoBody(t, req)
  ELSE IF AlreadyRunning
  THEN /\ task' = [task EXCEPT ![t] = Update(@, [kind |-> kind, req |-> req, pc |-> "done",
                                                   result |-> "rejected"])]
       /\ NoCommit
  ELSE IF kind = "start"
  THEN LET s1 == Update(_state, StartFields(req))
           s2 == SetStep(s1, "LAUNCH_BROWSER")
       IN  /\ Commit(<<s1, s2>>, s2)
           /\ task' = [task EXCEPT ![t] = Update(@, [kind |-> kind, req |-> req,
                                                     sid |-> NewSessionId, pc |-> "get_page"])]
  ELSE LET s1 == Update(_state, LoginOnlyFields)
           s2 == SetStep(s1, "LAUNCH_BROWSER_FOR_LOGIN")
       IN  /\ Commit(<<s1, s2>>, s2)
           /\ task' = [task EXCEPT ![t] = Update(@, [kind |-> kind, req |-> req,
                                                     sid |-> NewSessionId, pc |-> "launch"])]

\* start(**RequestOf(t)) with the lock free
Start(t) ==
  /\ t = next_task /\ task[t].pc = "idle" /\ LockFree
  /\ next_task' = t + 1
  /\ BeginBody(t, "start", RequestOf(t))
  /\ _lock' = Released(_lock)
  /\ UNCHANGED <<AUTO_ADVANCE, ai_call, ai_result, stops, faults, _gates, clock, canceller, open_browsers>>

\* start_login_only() with the lock free
StartLoginOnly(t) ==
  /\ t = next_task /\ task[t].pc = "idle" /\ LockFree
  /\ next_task' = t + 1
  /\ BeginBody(t, "login_only", NoRequest)
  /\ _lock' = Released(_lock)
  /\ UNCHANGED <<AUTO_ADVANCE, ai_call, ai_result, stops, faults, _gates, clock, canceller, open_browsers>>

\* start() or start_login_only() called while the lock is held or queued for:
\* the coroutine joins the FIFO of the lock
BeginQueued(t, kind) ==
  /\ t = next_task /\ task[t].pc = "idle" /\ ~LockFree
  /\ next_task' = t + 1
  /\ task' = [task EXCEPT ![t] = Update(@, [kind |-> kind, pc |-> "wait_lock",
                   req |-> IF kind = "start" THEN RequestOf(t) ELSE NoRequest])]
  /\ _lock' = [_lock EXCEPT !.waiters = Append(@, t)]
  /\ NoCommit
  /\ UNCHANGED <<AUTO_ADVANCE, ai_call, ai_result, stops, faults, _gates, clock, canceller, open_browsers>>

\* the lock is released and this coroutine is first in line
BeginResumed(t) ==
  /\ task[t].pc = "wait_lock" /\ ~_lock.locked /\ _lock.waiters # << >>
  /\ Head(_lock.waiters) = t
  /\ _lock' = Released([_lock EXCEPT !.waiters = Tail(@)])
  /\ BeginBody(t, task[t].kind, task[t].req)
  /\ UNCHANGED <<AUTO_ADVANCE, ai_call, ai_result, stops, faults, _gates, clock, canceller, open_browsers, next_task>>

(* ------------------------ start(): the pipeline ------------------------ *)
\* page = await playwright_driver.get_or_new_page(); the page just returned is
\* open, so the reopen branches of the page check are not taken
GetPage(t) ==
  /\ task[t].kind = "start" /\ task[t].pc = "get_page"
  /\ \E o \in Outcomes("ok", {"raise"}) :
       /\ Drew(o, "ok")
       /\ IF o = "ok"
          THEN LET s1 == Update(_state, ("_page" :> ManagedPage))
               IN  /\ Commit(<<s1>>, s1)
                   /\ SetTask(t, [page |-> ManagedPage, pc |-> "login_goto"])
                   /\ open_browsers' = open_browsers \cup {ManagedPage}
          ELSE /\ StartRaise(t, _state, "Exception: get_or_new_page")
               /\ UNCHANGED open_browsers
  /\ UNCHANGED <<AUTO_ADVANCE, ai_call, ai_result, stops, _gates, _lock, clock, next_task, canceller>>

\* the dict ensure_login_via_taobao returns for an outcome of its steps
LoginResult(o) ==
  CASE o = "success" -> [ok |-> TRUE, type |-> "success"]
    [] o = "page_closed" -> [ok |-> FALSE, type |-> "page_closed"]
    [] o = "proxy_tunnel_failed" -> [ok |-> FALSE, type |-> "proxy_tunnel_failed"]
    [] o = "playwright_error" -> [ok |-> FALSE, type |-> "playwright_error"]
    [] OTHER -> [ok |-> FALSE, type |-> "unexpected_error"]

\* an ensure_login_via_taobao that reports every no-proxy recovery as failed
FallbackResultFailed(o) == [ok |-> FALSE, type |-> o]

\* what ensure_login_via_taobao returns for the result of the no-proxy recovery
FallbackResult(o) ==
  IF o = "fallback_without_proxy_success"
  THEN [ok |-> TRUE, type |-> "proxy_tunnel_fallback_success"]
  ELSE [ok |-> FALSE, type |-> o]

\* the message of the RuntimeError start() raises for a failed login
LoginError(type) ==
  CASE type = "login_timeout" -> "RuntimeError: Login not settled: timeout"
    [] type = "proxy_tunnel_failed" -> "RuntimeError: Login not settled: proxy tunnel failed"
    [] OTHER -> "RuntimeError: Login not settled"

\* the message of the RuntimeError start_login_only() raises for a failed login
LoginOnlyError(type) ==
  CASE type = "login_timeout" -> "RuntimeError: Login timeout"
    [] type = "proxy_tunnel_failed" -> "RuntimeError: Proxy tunnel failed"
    [] OTHER -> "RuntimeError: Login failed"

\* ensure_login_via_taobao returned res to start() or start_login_only()
LoginReturned(t, res, u) ==
  IF task[t].kind = "start"
  THEN IF res.ok
       THEN LET s1 == SetStep(_state, "S0_DONE")
            IN  /\ Commit(<<s1>>, s1)
                /\ EnterGate(t, "CONFIRM_AFTER_LOGIN", Update(u, [res |-> res.type]))
       ELSE /\ LET s1 == Update(_state, ErrorFields(LoginError(res.type)))
                   s2 == StartFinally(s1)
               IN  Commit(<<s1, s2>>, s2)
            /\ SetTask(t, Update(u, [res |-> res.type, pc |-> "done", result |-> "error"]))
            /\ UNCHANGED _gates
  ELSE IF res.ok /\ "_context" \in DOMAIN _state
       THEN /\ SetTask(t, Update(u, [res |-> res.type, pc |-> "persist_login"]))
            /\ NoCommit
            /\ UNCHANGED _gates
       ELSE IF res.ok
       THEN \* the lookup of _state["_context"] raises KeyError: the handles
            \* were removed while the login was awaited
            /\ LET s1 == Update(_state, ErrorFields("KeyError: '_context'"))
               IN  Commit(<<s1, s1>>, s1)
            /\ SetTask(t, Update(u, [res |-> res.type, pc |-> "done", result |-> "error"]))
            /\ UNCHANGED _gates
       ELSE /\ LET s1 == Update(_state, ErrorFields(LoginOnlyError(res.type)))
               IN  Commit(<<s1, s1>>, s1)
            /\ SetTask(t, Update(u, [res |-> res.type, pc |-> "done", result |-> "error"]))
            /\ UNCHANGED _gates

\* a login flow that takes every answer of the login predicate for true
TakenForLoggedIn(o) == o \in {"logged_in", "not_logged_in"}

\* "if await is_logged_in(page)" and "if logged_in" of the poll loop
IsLoggedIn(o) == o = "logged_in"

\* ensure_login_via_taobao: page.goto(LOGIN_ENTRY_URL), sleep(3), is_logged_in
LoginGoto(t) ==
  /\ task[t].pc = "login_goto"
  /\ \E o \in Outcomes("logged_in", {"not_logged_in", "proxy_tunnel_failed",
                                      "playwright_error", "unexpected_error"}) :
       /\ Drew(o, "logged_in")
       /\ CASE o \in {"logged_in", "not_logged_in"} /\ IsLoggedIn(o) ->
                 /\ SetTask(t, [pc |-> "product_goto", login_seen |-> o])
                 /\ clock' = Elapse
                 /\ NoCommit /\ UNCHANGED _gates
            [] o \in {"logged_in", "not_logged_in"} /\ ~IsLoggedIn(o) ->
                 /\ SetTask(t, [pc |-> "login_poll", login_seen |-> o])
                 /\ clock' = Elapse
                 /\ NoCommit /\ UNCHANGED _gates
            [] OTHER ->
                 /\ LoginReturned(t, LoginResult(o), [failed |-> TRUE])
                 /\ UNCHANGED clock
  /\ UNCHANGED <<AUTO_ADVANCE, ai_call, ai_result, stops, _lock, next_task, canceller, open_browsers>>

\* wait_until_logged_in: one round of the poll loop; the poll is entered
\* after a check that found the user not logged in, and each of its rounds
\* can find the page closed, the user logged in, or neither
LoginPoll(t) ==
  /\ task[t].pc = "login_poll"
  /\ \E o \in {"logged_in", "page_closed", "not_logged_in"} :
       /\ UNCHANGED faults
       /\ CASE o = "page_closed" ->
                 /\ LoginReturned(t, LoginResult(o), [failed |-> TRUE])
                 /\ UNCHANGED clock
            [] o # "page_closed" /\ IsLoggedIn(o) ->
                 /\ SetTask(t, [pc |-> "product_goto", login_seen |-> o])
                 /\ NoCommit /\ UNCHANGED <<_gates, clock>>
            [] OTHER ->
                 /\ clock' = Elapse
                 /\ NoCommit /\ UNCHANGED <<_gates, task>>
  /\ UNCHANGED <<AUTO_ADVANCE, ai_call, ai_result, stops, _lock, next_task, canceller, open_browsers>>

\* a classification that takes every navigation error for a proxy-tunnel error
AnyErrorIsTunnelError(o) == TRUE

\* is_proxy_tunnel_error(str(nav_error)) on the classes of navigation errors
IsProxyTunnelError(o) == o = "tunnel_error"

\* ensure_login_via_taobao: page.goto(product_url) after login is settled
ProductGoto(t) ==
  /\ task[t].pc = "product_goto"
  /\ \E o \in Outcomes("ok", {"tunnel_error", "playwright_error", "other_error"}) :
       /\ Drew(o, "ok")
       /\ CASE o = "ok" ->
                 LoginReturned(t, LoginResult("success"), [nav |-> o])
            [] o \in {"tunnel_error", "playwright_error"} /\ IsProxyTunnelError(o) ->
                 /\ SetTask(t, [pc |-> "fallback", nav |-> o,
                                fallback_calls |-> task[t].fallback_calls + 1])
                 /\ NoCommit /\ UNCHANGED _gates
            [] o \in {"tunnel_error", "playwright_error"} /\ ~IsProxyTunnelError(o) ->
                 \* re-raised, and caught by the outer except PlaywrightError
                 LoginReturned(t, LoginResult("playwright_error"),
                               [nav |-> o, failed |-> o # "tunnel_error"])
            [] OTHER ->
                 LoginReturned(t, LoginResult("unexpected_error"),
                               [nav |-> o, failed |-> TRUE])
  /\ UNCHANGED <<AUTO_ADVANCE, ai_call, ai_result, stops, _lock, clock, next_task, canceller, open_browsers>>

\* the page reopen_page_without_proxy_and_reuse_cookies opens in its new
\* context without proxy
RecoveredPage(t) == ManagedPage + MaxTasks + t

\* chat_status.get("page", page): ensure_product_and_chat_open returns the
\* page it was called with, the local page of start()
ChatPage(t) == task[t].page

\* reopen_page_without_proxy_and_reuse_cookies(page, product_url) returned
Fallback(t) ==
  /\ task[t].pc = "fallback"
  /\ \E o \in {"fallback_without_proxy_success", "proxy_tunnel_failed",
               "navigation_failed", "fallback_failed"} :
       LoginReturned(t, FallbackResult(o),
                     [failed |-> task[t].failed \/ o # "fallback_without_proxy_success",
                      recovered |-> IF o = "fallback_without_proxy_success"
                                    THEN RecoveredPage(t) ELSE NoHandle])
  /\ UNCHANGED <<AUTO_ADVANCE, ai_call, ai_result, stops, faults, _lock, clock, next_task, canceller, open_browsers>>

\* a start() that goes back to sending after the wait at CONFIRM_AFTER_SEND
AfterGateRepeats(t) ==
  CASE task[t].gate = "CONFIRM_AFTER_LOGIN" -> "chat_open"
    [] task[t].gate = "CONFIRM_PRODUCT_AND_CHAT" -> "chat_ready"
    [] OTHER -> IF Len(task[t].sends) < task[t].req.max_turns THEN "send_opener"
                ELSE "wait_reply"

\* the code of start() after a gate wait returned
AfterGate(t) ==
  CASE task[t].gate = "CONFIRM_AFTER_LOGIN" -> "chat_open"
    [] task[t].gate = "CONFIRM_PRODUCT_AND_CHAT" -> "chat_ready"
    [] OTHER -> "wait_reply"

\* _wait_gate: ev.wait() returned, the Event is set
GateReleased(t) ==
  /\ task[t].pc = "gate" /\ EventIsSet(t)
  /\ SetTask(t, [pc |-> AfterGate(t)])
  /\ NoCommit
  /\ UNCHANGED <<AUTO_ADVANCE, ai_call, ai_result, stops, faults, _gates, _lock, clock, next_task, canceller, open_browsers>>

\* a _wait_gate without the auto-advance arm
NeverSwallowsTimeout == FALSE

\* a _wait_gate that takes the auto-advance arm whatever the setting
AlwaysSwallowsTimeout == TRUE

\* _wait_gate: "if AUTO_ADVANCE", the arm that swallows the TimeoutError of
\* wait_for(ev.wait(), timeout=AUTO_ADVANCE_TIMEOUT) and returns
SwallowsTimeout == AUTO_ADVANCE

\* _wait_gate: the timeout of wait_for passed with the Event unset; with
\* auto-advance that is how an unconfirmed wait returns, otherwise the
\* TimeoutError ends start()
GateTimeout(t) ==
  /\ task[t].pc = "gate" /\ ~EventIsSet(t)
  /\ IF SwallowsTimeout
     THEN /\ SetTask(t, [pc |-> AfterGate(t)])
          /\ NoCommit
          /\ UNCHANGED faults
     ELSE /\ faults < MaxFaults /\ faults' = faults + 1
          /\ StartRaise(t, _state, "TimeoutError: ")
  /\ clock' = Elapse
  /\ UNCHANGED <<AUTO_ADVANCE, ai_call, ai_result, stops, _gates, _lock, next_task, canceller, open_browsers>>

\* an ensure_product_and_chat_open that reports ok for every status of the chat
ChatResultAlwaysOk(type) == [ok |-> TRUE, type |-> type]

\* the dict ensure_product_and_chat_open returns for a status of the chat
ChatResult(type) == [ok |-> type = "chat_ready", type |-> type]

\* _wait_offer_ready, the scroll to the top, ensure_product_and_chat_open and
\* (on ok) dismiss_offer_overlays returned
ChatOpen(t) ==
  /\ task[t].pc = "chat_open"
  /\ \E type \in {"chat_ready", "blocked_by_captcha", "chat_not_found", "error"} :
       /\ IF ChatResult(type).ok
          THEN LET s1 == SetStep(_state, "S1_DONE")
               IN  /\ Commit(<<s1>>, s1)
                   /\ EnterGate(t, "CONFIRM_PRODUCT_AND_CHAT",
                                [chat_status |-> type, chat_page |-> ChatPage(t)])
          ELSE /\ StartFinallyOnly(t, [chat_status |-> type, pc |-> "done",
                                       result |-> "halted", failed |-> TRUE])
               /\ UNCHANGED _gates
  /\ clock' = Elapse
  /\ UNCHANGED <<AUTO_ADVANCE, ai_call, ai_result, stops, faults, _lock, next_task, canceller, open_browsers>>

\* a start() that goes on to send when wait_for_chat_ready raised
ChatReadyIgnored(t) ==
  /\ task[t].pc = "chat_ready"
  /\ \E o \in Outcomes("ok", {"raise"}) :
       /\ Drew(o, "ok")
       /\ SetTask(t, [pc |-> "send_opener", ready |-> IF o = "ok" THEN "ok" ELSE "failed"])
       /\ NoCommit
  /\ UNCHANGED <<AUTO_ADVANCE, ai_call, ai_result, stops, _gates, _lock, clock, next_task, canceller, open_browsers>>

\* wait_for_chat_ready(chat_page, timeout_s=25) returned or raised RuntimeError
ChatReady(t) ==
  /\ task[t].pc = "chat_ready"
  /\ \E o \in Outcomes("ok", {"raise"}) :
       /\ Drew(o, "ok")
       /\ IF o = "ok"
          THEN /\ SetTask(t, [pc |-> "send_opener", ready |-> "ok"])
               /\ NoCommit
          ELSE LET s1 == SetStep(_state, "S1_ERROR")
                   s2 == Update(s1, ErrorFields("RuntimeError: Chat interface did not load"))
                   s3 == StartFinally(s2)
               IN  /\ Commit(<<s1, s2, s3>>, s3)
                   /\ SetTask(t, [pc |-> "done", result |-> "error", failed |-> TRUE,
                                  ready |-> "failed"])
  /\ UNCHANGED <<AUTO_ADVANCE, ai_call, ai_result, stops, _gates, _lock, clock, next_task, canceller, open_browsers>>

\* send_on_chat_precise_canonical(page, text) for the outcome of its attempts:
\* it returns True whether or not the message was sent, and raises nothing
SendOnChat(o) == TRUE

\* the texts a coroutine failed to send, after a send of text with outcome o
Unsent(t, text, o) == IF o = "sent" THEN task[t].unsent ELSE Append(task[t].unsent, text)

\* send_on_chat_precise_canonical(chat_page, opener_text) returned; its result
\* is not looked at
SendOpener(t) ==
  /\ task[t].pc = "send_opener"
  /\ \E o \in Outcomes("sent", {"not_sent"}) :
       /\ Drew(o, "sent")
       /\ SendOnChat(o)
       /\ LET s1 == SetStep(_state, "S1_DONE")
          IN  /\ Commit(<<s1>>, s1)
              /\ EnterGate(t, "CONFIRM_AFTER_SEND",
                           [sends |-> Append(task[t].sends, task[t].req.opener_text),
                            unsent |-> Unsent(t, task[t].req.opener_text, o)])
  /\ UNCHANGED <<AUTO_ADVANCE, ai_call, ai_result, stops, _lock, clock, next_task, canceller, open_browsers>>

\* wait_for_supplier_reply_canonical(chat_page, timeout_s=180) returned
WaitReply(t) ==
  /\ task[t].pc = "wait_reply"
  /\ LET s1 == Update(_state, [supplier_reply |-> "supplier_text"])
     IN  Commit(<<s1>>, s1)
  /\ SetTask(t, [supplier_reply |-> "supplier_text", pc |-> "generate"])
  /\ clock' = Elapse
  /\ UNCHANGED <<AUTO_ADVANCE, ai_call, ai_result, stops, faults, _gates, _lock, next_task, canceller, open_browsers>>

\* the import of ai_client and ai_client.generate_next_reply(...) returned a
\* result with text, returned an empty result, or raised
Generate(t) ==
  /\ task[t].pc = "generate"
  /\ \E o \in Outcomes("text", {"empty", "raise"}) :
       /\ Drew(o, "text")
       /\ SetTask(t, [ai |-> o, pc |-> "send_reply"])
  /\ NoCommit
  /\ UNCHANGED <<AUTO_ADVANCE, ai_call, ai_result, stops, _gates, _lock, clock, next_task, canceller, open_browsers>>

\* the text start() sends for the outcome of the Reply Generator
ReplyText(ai) == IF ai = "text" THEN "ai_text" ELSE FALLBACK_REPLY

\* the fields start() records after the reply is sent
ReplyFields(ai) ==
  CASE ai = "text" -> [ai_reply |-> "ai_text", ai_reply_used_model |-> "model",
                       ai_reply_is_mock |-> "False"]
    [] ai = "empty" -> [ai_reply |-> FALLBACK_REPLY, ai_reply_used_model |-> "fallback"]
    [] OTHER -> [ai_reply |-> FALLBACK_REPLY, ai_reply_error |-> "str(e)"]

\* send_on_chat_precise_canonical(chat_page, ai_reply) returned; its result is
\* not looked at
SendReply(t) ==
  /\ task[t].pc = "send_reply"
  /\ \E o \in Outcomes("sent", {"not_sent"}) :
       /\ Drew(o, "sent")
       /\ SendOnChat(o)
       /\ SetTask(t, [sends |-> Append(task[t].sends, ReplyText(task[t].ai)),
                      unsent |-> Unsent(t, ReplyText(task[t].ai), o),
                      pc |-> "persist_state"])
  /\ Commit(<< >>, Update(_state, ReplyFields(task[t].ai)))
  /\ UNCHANGED <<AUTO_ADVANCE, ai_call, ai_result, stops, _gates, _lock, clock, next_task, canceller, open_browsers>>

\* a start() that finishes without stamping finished_at
DoneWithoutStamp == [status |-> "done", step |-> "DONE"]

\* the fields of a finished run
DoneFields == [status |-> "done", step |-> "DONE", finished_at |-> "stamped"]

\* playwright_driver.persist_state(...) returned: start() finishes
PersistState(t) ==
  /\ task[t].kind = "start" /\ task[t].pc = "persist_state"
  /\ LET s1 == Update(_state, DoneFields)
         s2 == StartFinally(s1)
     IN  Commit(<<s1, s2>>, s2)
  /\ SetTask(t, [pc |-> "done", result |-> "DONE"])
  /\ UNCHANGED <<AUTO_ADVANCE, ai_call, ai_result, stops, faults, _gates, _lock, clock, next_task, canceller, open_browsers>>

(* ------------------------- start_login_only() -------------------------- *)
\* the browser a call of playwright_driver.start() launches for coroutine t
LaunchedBrowser(t) == ManagedPage + t

\* pw, browser, context, page = await playwright_driver.start()
Launch(t) ==
  /\ task[t].kind = "login_only" /\ task[t].pc = "launch"
  /\ \E o \in Outcomes("ok", {"raise"}) :
       /\ Drew(o, "ok")
       /\ IF o = "ok"
          THEN LET h  == LaunchedBrowser(t)
                   s1 == Update(_state, [k \in InternalKeys |-> h])
                   s2 == SetStep(s1, "ENSURE_LOGIN_TO_WORK_HOME")
               IN  /\ Commit(<<s1, s2>>, s2)
                   /\ SetTask(t, [page |-> h, pc |-> "login_goto"])
                   /\ open_browsers' = open_browsers \cup {h}
          ELSE /\ LoginOnlyRaise(t, _state, "Exception: launch_browser")
               /\ UNCHANGED open_browsers
  /\ UNCHANGED <<AUTO_ADVANCE, ai_call, ai_result, stops, _gates, _lock, clock, next_task, canceller>>

\* playwright_driver.persist_state(_state["_context"]) returned:
\* start_login_only() finishes
PersistLogin(t) ==
  /\ task[t].kind = "login_only" /\ task[t].pc = "persist_login"
  /\ LET s1 == SetStep(_state, "READY_FOR_PRODUCT")
     IN  Commit(<<s1, s1>>, s1)
  /\ SetTask(t, [pc |-> "done", result |-> "READY"])
  /\ UNCHANGED <<AUTO_ADVANCE, ai_call, ai_result, stops, faults, _gates, _lock, clock, next_task, canceller, open_browsers>>

\* app.goto_product: goto_product(raw) is called for a running session only;
\* with the lock free its check runs at once
GotoProduct(t) ==
  /\ t = next_task /\ task[t].pc = "idle" /\ IsRunning /\ LockFree
  /\ next_task' = t + 1
  /\ \E raw \in ProductInputs : GotoBody(t, [NoRequest EXCEPT !.product_url = raw])
  /\ _lock' = Released(_lock)
  /\ UNCHANGED <<AUTO_ADVANCE, ai_call, ai_result, stops, faults, _gates, clock, canceller, open_browsers>>

\* goto_product(raw) called while the lock is held or queued for
GotoQueued(t) ==
  /\ t = next_task /\ task[t].pc = "idle" /\ IsRunning /\ ~LockFree
  /\ next_task' = t + 1
  /\ \E raw \in ProductInputs :
       task' = [task EXCEPT ![t] = Update(@, [kind |-> "goto_product", pc |-> "wait_lock",
                                              req |-> [NoRequest EXCEPT !.product_url = raw]])]
  /\ _lock' = [_lock EXCEPT !.waiters = Append(@, t)]
  /\ NoCommit
  /\ UNCHANGED <<AUTO_ADVANCE, ai_call, ai_result, stops, faults, _gates, clock, canceller, open_browsers>>

\* page = await playwright_driver.get_or_new_page() of goto_product(); the
\* page just returned is open, so the reopen branch of the page check is not
\* taken, and the code runs on to the first safe_goto
GotoGetPage(t) ==
  /\ task[t].kind = "goto_product" /\ task[t].pc = "goto_get_page"
  /\ \E o \in Outcomes("ok", {"raise"}) :
       /\ Drew(o, "ok")
       /\ IF o = "ok"
          THEN LET s1 == SetStep(Update(_state, ("_page" :> ManagedPage)),
                                 "NAVIGATING_TO_PRODUCT")
               IN  /\ Commit(<<s1>>, s1)
                   /\ SetTask(t, [page |-> ManagedPage, pc |-> "goto_nav"])
                   /\ open_browsers' = open_browsers \cup {ManagedPage}
          ELSE /\ GotoRaise(t, _state, "Exception: get_or_new_page")
               /\ UNCHANGED open_browsers
  /\ UNCHANGED <<AUTO_ADVANCE, ai_call, ai_result, stops, _gates, _lock, clock, next_task, canceller>>

\* safe_goto(page, product_url) returned or raised: the first failure is
\* caught and followed by reopen_page(), the second one ends goto_product()
GotoNavigate(t) ==
  /\ task[t].kind = "goto_product" /\ task[t].pc \in {"goto_nav", "goto_nav_again"}
  /\ IF task[t].pc = "goto_nav"
     THEN \E o \in Outcomes("ok", {"raise"}) :
            /\ Drew(o, "ok")
            /\ SetTask(t, [pc |-> IF o = "ok" THEN "goto_ready" ELSE "goto_reopen",
                           nav |-> o])
            /\ NoCommit
     ELSE \E o \in {"ok", "raise"} :
            /\ UNCHANGED faults
            /\ IF o = "ok"
               THEN SetTask(t, [pc |-> "goto_ready", nav |-> o]) /\ NoCommit
               ELSE GotoRaise(t, _state, "Exception: safe_goto")
  /\ UNCHANGED <<AUTO_ADVANCE, ai_call, ai_result, stops, _gates, _lock, clock, next_task, canceller, open_browsers>>

\* page = await playwright_driver.reopen_page() after the failed navigation
GotoReopen(t) ==
  /\ task[t].kind = "goto_product" /\ task[t].pc = "goto_reopen"
  /\ \E o \in {"ok", "raise"} :
       IF o = "ok"
       THEN LET s1 == Update(_state, ("_page" :> ManagedPage))
            IN  /\ Commit(<< >>, s1)
                /\ SetTask(t, [page |-> ManagedPage, pc |-> "goto_nav_again"])
       ELSE GotoRaise(t, _state, "Exception: reopen_page")
  /\ UNCHANGED <<AUTO_ADVANCE, ai_call, ai_result, stops, faults, _gates, _lock, clock, next_task, canceller, open_browsers>>

\* _wait_offer_ready(page) returned: it sleeps two seconds and returns True,
\* so the reload and the "not ready" raise are not reached
GotoReady(t) ==
  /\ task[t].kind = "goto_product" /\ task[t].pc = "goto_ready"
  /\ LET s1 == Update(_state, [product_url |-> NormalizeProductUrl(task[t].req.product_url),
                               step |-> "AT_PRODUCT"])
     IN  Commit(<<s1>>, s1)
  /\ SetTask(t, [pc |-> "done", result |-> "AT_PRODUCT"])
  /\ clock' = Elapse
  /\ UNCHANGED <<AUTO_ADVANCE, ai_call, ai_result, stops, faults, _gates, _lock, next_task, canceller, open_browsers>>

(* ------------------------------ cancel() ------------------------------- *)
\* the fields cancel() sets in its finally clause
CancelFields == [status |-> "cancelled", step |-> "CANCELLED", finished_at |-> "stamped"]

\* cancel(): the finally clause
CancelFinally == Update(Pop(_state, InternalKeys), CancelFields)

\* cancel(): the test that guards playwright_driver.stop
HasBrowser == Has(_state, "_pw") /\ Has(_state, "_browser")

\* cancel() with the lock acquired, up to its first await or its end
CancelBody ==
  IF HasBrowser
  THEN /\ canceller' = [pc |-> "stopping", browser |-> _state["_browser"]]
       /\ NoCommit
       /\ UNCHANGED open_browsers
  ELSE /\ Commit(<<CancelFinally>>, CancelFinally)
       /\ UNCHANGED <<canceller, open_browsers>>

QueuedCancels == Len(SelectSeq(_lock.waiters, LAMBDA w : w = 0))

\* app.stop_negotiation: cancel() is called for a running session only; with
\* the lock free it runs at once, otherwise it queues for the lock
StopNegotiation ==
  /\ IsRunning
  /\ IF LockFree
     THEN /\ stops < MaxStops
          /\ stops' = stops + 1
          /\ CancelBody
          /\ _lock' = [_lock EXCEPT !.locked = HasBrowser]
     ELSE /\ QueuedCancels < MaxQueuedCancels
          /\ _lock' = [_lock EXCEPT !.waiters = Append(@, 0)]
          /\ NoCommit
          /\ UNCHANGED <<canceller, open_browsers, stops>>
  /\ UNCHANGED <<AUTO_ADVANCE, ai_call, ai_result, faults, _gates, clock, task, next_task>>

\* the lock is released and a queued cancel() is first in line
CancelResumed ==
  /\ ~_lock.locked /\ _lock.waiters # << >> /\ Head(_lock.waiters) = 0
  /\ CancelBody
  /\ _lock' = [locked |-> HasBrowser, waiters |-> Tail(_lock.waiters)]
  /\ UNCHANGED <<AUTO_ADVANCE, ai_call, ai_result, stops, faults, _gates, clock, task, next_task>>

\* playwright_driver.stop(pw, browser) returned (the browser is closed) or
\* raised (browser.close() failed); the finally clause runs either way and
\* the lock is released
CancelStopped ==
  /\ canceller.pc = "stopping"
  /\ \E o \in Outcomes("ok", {"raise"}) :
       /\ Drew(o, "ok")
       /\ open_browsers' = IF o = "ok" THEN open_browsers \ {canceller.browser}
                           ELSE open_browsers
  /\ Commit(<<CancelFinally>>, CancelFinally)
  /\ canceller' = [pc |-> "idle", browser |-> NoHandle]
  /\ _lock' = Released(_lock)
  /\ UNCHANGED <<AUTO_ADVANCE, ai_call, ai_result, stops, _gates, clock, task, next_task>>

(* -------------------- control surface: gates, time --------------------- *)
\* POST /api/gate/open
OpenGate(name) ==
  /\ _gates' = OpenGateOn(_gates, name)
  /\ NoCommit
  /\ UNCHANGED <<AUTO_ADVANCE, ai_call, ai_result, stops, faults, _lock, clock, task, next_task, canceller, open_browsers>>

\* POST /api/gate/reset
ResetGate(name) ==
  /\ _gates' = ResetGateOn(_gates, name)
  /\ task' = ResetWaiters(task, name)
  /\ NoCommit
  /\ UNCHANGED <<AUTO_ADVANCE, ai_call, ai_result, stops, faults, _lock, clock, next_task, canceller, open_browsers>>

\* a second passes
Tick ==
  /\ clock = _state["session_id"]
  /\ clock' = clock + 1
  /\ NoCommit
  /\ UNCHANGED <<AUTO_ADVANCE, ai_call, ai_result, stops, faults, _gates, _lock, task, next_task, canceller, open_browsers>>

(* --------------------------- specification ----------------------------- *)
\* the gates a coroutine is blocked on: the operator is asked to confirm them
WaitedGates == {task[t].gate : t \in {x \in Tasks : task[x].pc = "gate" /\ ~EventIsSet(x)}}

Next ==
  \/ \E t \in Tasks : Start(t)
  \/ \E t \in Tasks : StartLoginOnly(t)
  \/ \E t \in Tasks : BeginQueued(t, "start")
  \/ \E t \in Tasks : BeginQueued(t, "login_only")
  \/ \E t \in Tasks : BeginResumed(t)
  \/ \E t \in Tasks : GetPage(t)
  \/ \E t \in Tasks : LoginGoto(t)
  \/ \E t \in Tasks : LoginPoll(t)
  \/ \E t \in Tasks : ProductGoto(t)
  \/ \E t \in Tasks : Fallback(t)
  \/ \E t \in Tasks : GateReleased(t)
  \/ \E t \in Tasks : GateTimeout(t)
  \/ \E t \in Tasks : ChatOpen(t)
  \/ \E t \in Tasks : ChatReady(t)
  \/ \E t \in Tasks : SendOpener(t)
  \/ \E t \in Tasks : WaitReply(t)
  \/ \E t \in Tasks : Generate(t)
  \/ \E t \in Tasks : SendReply(t)
  \/ \E t \in Tasks : PersistState(t)
  \/ \E t \in Tasks : Launch(t)
  \/ \E t \in Tasks : PersistLogin(t)
  \/ \E t \in Tasks : GotoProduct(t)
  \/ \E t \in Tasks : GotoQueued(t)
  \/ \E t \in Tasks : GotoGetPage(t)
  \/ \E t \in Tasks : GotoNavigate(t)
  \/ \E t \in Tasks : GotoReopen(t)
  \/ \E t \in Tasks : GotoReady(t)
  \/ StopNegotiation
  \/ CancelResumed
  \/ CancelStopped
  \/ \E name \in WaitedGates : OpenGate(name)
  \/ Tick

Spec == Init /\ [][Next]_vars

\* The gates under an operator who opens and resets any gate at any time,
\* waited for or not, while start() runs are made one after another.
NextGates ==
  \/ \E t \in Tasks : Start(t)
  \/ \E t \in Tasks : GetPage(t)
  \/ \E t \in Tasks : LoginGoto(t)
  \/ \E t \in Tasks : LoginPoll(t)
  \/ \E t \in Tasks : ProductGoto(t)
  \/ \E t \in Tasks : Fallback(t)
  \/ \E t \in Tasks : GateReleased(t)
  \/ \E t \in Tasks : GateTimeout(t)
  \/ \E t \in Tasks : ChatOpen(t)
  \/ \E t \in Tasks : ChatReady(t)
  \/ \E t \in Tasks : SendOpener(t)
  \/ \E t \in Tasks : WaitReply(t)
  \/ \E t \in Tasks : Generate(t)
  \/ \E t \in Tasks : SendReply(t)
  \/ \E t \in Tasks : PersistState(t)
  \/ \E name \in GateNames : OpenGate(name)
  \/ \E name \in GateNames : ResetGate(name)

SpecGates == Init /\ [][NextGates]_vars

\* a call of generate_next_reply returns
GenerateNextReply ==
  /\ ai_call.made /\ ~ai_result.returned
  /\ ai_result' = [returned |-> TRUE, value |-> GenerateNextReplyOf(ai_call)]
  /\ NoCommit
  /\ UNCHANGED <<AUTO_ADVANCE, ai_call, _gates, _lock, clock, task, next_task, canceller,
                 open_browsers, faults, stops>>

\* The Reply Generator as a function: every call of ReplyCalls is made once.
InitReply ==
  /\ AUTO_ADVANCE \in BOOLEAN
  /\ _state = InitialState
  /\ current_session_obj = SyncCurrentSessionObj(InitialState)
  /\ files = << >>
  /\ stage_log = << >>
  /\ _gates = << >>
  /\ _lock = [locked |-> FALSE, waiters |-> << >>]
  /\ clock = 1
  /\ task = [t \in Tasks |-> IdleTask]
  /\ next_task = 1
  /\ canceller = [pc |-> "idle", browser |-> NoHandle]
  /\ open_browsers = {}
  /\ faults = 0
  /\ stops = 0
  /\ ai_call \in ReplyCalls
  /\ ai_result = NoResult

NextReply == GenerateNextReply

SpecReply == InitReply /\ [][NextReply]_vars

(* ------------------ goto_product() on a ready session ------------------- *)
\* The values of _state at the saves of a start_login_only() that was called
\* in second 1 of a fresh process and succeeded: the reset, the launch, the
\* login and READY_FOR_PRODUCT
ReadySaves ==
  LET h  == LaunchedBrowser(1)
      a0 == Update(InitialState,
                   [session_id |-> 1, status |-> "running", step |-> "LOGIN_ONLY_INIT",
                    turn |-> 0, max_turns |-> 0, product_url |-> None,
                    opener_text |-> None, last_error |-> None, reply |-> None,
                    started_at |-> 1, finished_at |-> None])
      a1 == SetStep(a0, "LAUNCH_BROWSER_FOR_LOGIN")
      a2 == Update(a1, [k \in InternalKeys |-> h])
      a3 == SetStep(a2, "ENSURE_LOGIN_TO_WORK_HOME")
      a4 == SetStep(a3, "READY_FOR_PRODUCT")
  IN  <<a0, a1, a2, a3, a4, a4>>

\* The program after that start_login_only(): the session is running at
\* READY_FOR_PRODUCT with its handles, the driver manages no page yet
InitGoto ==
  /\ AUTO_ADVANCE \in BOOLEAN
  /\ _state = ReadySaves[Len(ReadySaves)]
  /\ current_session_obj = SyncCurrentSessionObj(ReadySaves[Len(ReadySaves)])
  /\ files = SaveFiles(<< >>, ReadySaves)
  /\ stage_log = SaveLogs(<< >>, ReadySaves)
  /\ _gates = << >>
  /\ _lock = [locked |-> FALSE, waiters |-> << >>]
  /\ clock = 2
  /\ task = [t \in Tasks |-> IdleTask]
  /\ next_task = 1
  /\ canceller = [pc |-> "idle", browser |-> NoHandle]
  /\ open_browsers = {LaunchedBrowser(1)}
  /\ faults = 0
  /\ stops = 0
  /\ ai_call = NoCall
  /\ ai_result = NoResult

\* goto_product() calls and stop requests on the ready session
NextGoto ==
  \/ \E t \in Tasks : GotoProduct(t)
  \/ \E t \in Tasks : GotoQueued(t)
  \/ \E t \in Tasks : BeginResumed(t)
  \/ \E t \in Tasks : GotoGetPage(t)
  \/ \E t \in Tasks : GotoNavigate(t)
  \/ \E t \in Tasks : GotoReopen(t)
  \/ \E t \in Tasks : GotoReady(t)
  \/ StopNegotiation
  \/ CancelResumed
  \/ CancelStopped

SpecGoto == InitGoto /\ [][NextGoto]_vars

(* ------------------- start() under its success hypotheses --------------- *)
\* Runs of start() in which no driver or generator call fails: the page is
\* obtained, the login settles (at once or in the poll), the product page and
\* the chat open, the chat input gets ready, every send goes out, the
\* generator returns a text, and no gate wait ends in a TimeoutError.
Undisturbed ==
  \A t \in Tasks :
    /\ task[t].result \notin {"error", "halted", "rejected"}
    /\ ~task[t].failed
    /\ task[t].nav \in {"none", "ok"}
    /\ task[t].ai \in {"none", "text"}
    /\ task[t].unsent = << >>

\* a step of start() whose call succeeded
Live(A) == A /\ Undisturbed'

NextLive ==
  \/ \E t \in Tasks : Live(Start(t))
  \/ \E t \in Tasks : Live(GetPage(t))
  \/ \E t \in Tasks : Live(LoginGoto(t))
  \/ \E t \in Tasks : Live(LoginPoll(t))
  \/ \E t \in Tasks : Live(ProductGoto(t))
  \/ \E t \in Tasks : Live(GateReleased(t))
  \/ \E t \in Tasks : Live(GateTimeout(t))
  \/ \E t \in Tasks : Live(ChatOpen(t))
  \/ \E t \in Tasks : Live(ChatReady(t))
  \/ \E t \in Tasks : Live(SendOpener(t))
  \/ \E t \in Tasks : Live(WaitReply(t))
  \/ \E t \in Tasks : Live(Generate(t))
  \/ \E t \in Tasks : Live(SendReply(t))
  \/ \E t \in Tasks : Live(PersistState(t))
  \/ \E name \in WaitedGates : OpenGate(name)
  \/ Tick

\* the coroutine of start() moves on: the event loop resumes it when the call
\* it awaits has returned, the poll sees the login predicate true at some
\* time, and a gate wait returns by the Event or by the auto-advance timeout
Advance(t) ==
  /\ \/ Live(GetPage(t)) \/ Live(LoginGoto(t)) \/ Live(LoginPoll(t))
     \/ Live(ProductGoto(t)) \/ Live(GateReleased(t)) \/ Live(GateTimeout(t))
     \/ Live(ChatOpen(t)) \/ Live(ChatReady(t)) \/ Live(SendOpener(t))
     \/ Live(WaitReply(t)) \/ Live(Generate(t)) \/ Live(SendReply(t))
     \/ Live(PersistState(t))
  /\ task'[t].pc # task[t].pc

\* the operator confirms a gate that start() waits at
Confirm == \E name \in WaitedGates : OpenGate(name)

SpecLive ==
  /\ Init /\ [][NextLive]_vars
  /\ \A t \in Tasks : WF_vars(Advance(t))
  /\ WF_vars(Confirm)

(* ------------------------------- claims -------------------------------- *)
\* C1: a start() or start_login_only() that runs its check under the lock
\* while the status is running ends rejected, and the step leaves _state (so
\* id, status, stage, product_url, opener_text, started_at and the replies),
\* current_session_obj and every status.json as they were.
RejectedStartChangesNothing ==
  [][\A t \in Tasks :
       (/\ task[t].pc \in {"idle", "wait_lock"}
        /\ task'[t].pc \notin {"idle", "wait_lock"}
        /\ task'[t].kind \in {"start", "login_only"}
        /\ _state["status"] = "running")
       => /\ task'[t].pc = "done" /\ task'[t].result = "rejected"
          /\ _state' = _state
          /\ files' = files
          /\ current_session_obj' = current_session_obj]_vars

\* C1, witness: a call was rejected while the session of another coroutine,
\* which is still in its pipeline, is running
RejectedWhileRunning ==
  \E t, u \in Tasks :
    /\ task[t].result = "rejected"
    /\ task[u].pc \notin {"idle", "wait_lock", "done"}
    /\ _state["status"] = "running" /\ _state["session_id"] = task[u].sid

\* C2: at most one coroutine is inside the pipeline of start() (past its entry
\* under the lock and not yet returned) at any time.
AtMostOneActiveWorkflow ==
  Cardinality({t \in Tasks : task[t].kind = "start"
                             /\ task[t].pc \notin {"idle", "wait_lock", "done"}}) <= 1

\* C3: when a run of start() has reached DONE, the step values written to the
\* status.json of its session never went back in the order of StageOrder, and
\* every stage of StageOrder was written.
CompletedRunStagesInOrder ==
  \A t \in Tasks :
    (task[t].kind = "start" /\ task[t].result = "DONE")
    => /\ task[t].sid \in DOMAIN stage_log
       /\ stage_log[task[t].sid].ordered
       /\ {StageOrder[i] : i \in 1..Len(StageOrder)} \subseteq stage_log[task[t].sid].written

\* C4: for every gate name and every registry the program reaches, a second
\* open_gate leaves the registry as the first did, with the Event set; after
\* reset_gate the Event registered under the name is unset, so that a wait on
\* it is pending, and it is set again by a new open_gate.
GateOpenIdempotentResetBlocks ==
  \A name \in GateNames :
    LET opened == OpenGateOn(_gates, name)
        reset  == ResetGateOn(opened, name)
    IN  /\ opened[name]
        /\ OpenGateOn(opened, name) = opened
        /\ OpenGateOn(OpenGateOn(opened, name), name) = opened
        /\ ~reset[name]
        /\ OpenGateOn(reset, name)[name]
        /\ \A t \in Tasks :
             (task[t].pc = "gate" /\ task[t].gate = name /\ ~task[t].ev_replaced)
             => (EventIsSet(t) <=> _gates[name])

\* C4, witness: a gate was opened and then reset while a coroutine waited on
\* it, and the Event now registered under its name is unset
GateResetAfterOpen ==
  \E t \in Tasks :
    /\ task[t].pc = "gate" /\ task[t].ev_replaced
    /\ task[t].gate \in DOMAIN _gates /\ ~_gates[task[t].gate]

\* C5: a run of start() whose product navigation failed with a tunnel error,
\* whose no-proxy recovery succeeded, and none of whose other awaited calls
\* failed or timed out, has called the recovery exactly once and, when it has
\* ended, has ended in DONE.
ProxyFallbackReachesDone ==
  \A t \in Tasks :
    (task[t].kind = "start" /\ task[t].nav = "tunnel_error" /\ ~task[t].failed)
    => /\ task[t].fallback_calls = 1
       /\ task[t].pc = "done" => task[t].result = "DONE"

\* C5, witness: such a run has ended in DONE
ProxyFallbackRunDone ==
  \E t \in Tasks :
    /\ task[t].kind = "start" /\ task[t].nav = "tunnel_error" /\ ~task[t].failed
    /\ task[t].res = "proxy_tunnel_fallback_success"
    /\ task[t].fallback_calls = 1 /\ task[t].result = "DONE"

\* C6: a run whose chat-open call returned blocked_by_captcha has ended without
\* sending anything; and as long as no chat-open call of any run has returned
\* chat_ready, S1_DONE is neither the step in memory nor written to any
\* status.json, nothing is sent, and no run is past its chat-open call.
CaptchaNeverReachesS1Done ==
  /\ \A t \in Tasks :
       task[t].chat_status = "blocked_by_captcha"
       => task[t].pc = "done" /\ task[t].result = "halted" /\ task[t].sends = << >>
  /\ (\A t \in Tasks : task[t].chat_status # "chat_ready")
     => /\ _state["step"] # "S1_DONE"
        /\ \A sid \in DOMAIN stage_log : "S1_DONE" \notin stage_log[sid].written
        /\ \A sid \in DOMAIN files : files[sid]["step"] # "S1_DONE"
        /\ \A t \in Tasks :
             /\ task[t].sends = << >>
             /\ task[t].pc \notin {"chat_ready", "send_opener", "wait_reply", "generate",
                                   "send_reply", "persist_state"}
             /\ task[t].pc = "gate" => task[t].gate = "CONFIRM_AFTER_LOGIN"

\* C6, witness: two runs were stopped by the captcha, one after the other
CaptchaStoppedRetry ==
  /\ \A t \in Tasks : task[t].chat_status = "blocked_by_captcha" /\ task[t].pc = "done"
  /\ \E t, u \in Tasks : task[t].sid # task[u].sid

\* C7: the step that ends the reply stage of a run whose Reply Generator
\* returned nothing or raised has sent exactly one message, the fallback
\* acknowledgement, and leaves ai_reply_used_model = "fallback" in the session.
FallbackReplyIsMarked ==
  [][\A t \in Tasks :
       (/\ task[t].pc = "send_reply" /\ task'[t].pc = "persist_state"
        /\ task[t].ai \in {"empty", "raise"})
       => /\ task'[t].sends = Append(task[t].sends, FALLBACK_REPLY)
          /\ FALLBACK_REPLY # ""
          /\ "ai_reply_used_model" \in DOMAIN _state'
          /\ _state'["ai_reply_used_model"] = "fallback"]_vars

\* C8: whenever a session exists, the step of its status.json, the step a
\* get_status() returns and the stage of current_session are the step in
\* memory.
PersistedStageIsCurrent ==
  _state["session_id"] # NoId
  => /\ _state["session_id"] \in DOMAIN files
     /\ files[_state["session_id"]]["step"] = _state["step"]
     /\ GetStatus["step"] = files[_state["session_id"]]["step"]
     /\ current_session_obj.current_state = files[_state["session_id"]]["step"]

\* C8, witness: a run is suspended at its second gate after the transitions
\* to S0_DONE and S1_DONE, and S1_DONE is what its status.json holds
SuspendedAfterTransition ==
  \E t \in Tasks :
    /\ task[t].pc = "gate" /\ task[t].gate = "CONFIRM_PRODUCT_AND_CHAT"
    /\ _state["session_id"] = task[t].sid
    /\ _state["step"] = "S1_DONE" /\ files[task[t].sid]["step"] = "S1_DONE"

\* C9: once the status is done, error or cancelled, a step changes status or
\* step only by a start() or start_login_only() that creates a session.
TerminalStatusIsFinal ==
  [][_state["status"] \in {"done", "error", "cancelled"}
     => \/ /\ _state'["status"] = _state["status"]
           /\ _state'["step"] = _state["step"]
        \/ \E t \in Tasks : /\ task[t].pc \in {"idle", "wait_lock"}
                            /\ task'[t].pc \in {"get_page", "launch"}]_vars

\* C10: when a cancel() whose calls did not fail has set CANCELLED, the browser
\* of the cancelled session is closed, the handle fields are gone, the status
\* is cancelled and the status.json of the session holds the snapshot.
CancelTearsDownSession ==
  [][(_state["step"] # "CANCELLED" /\ _state'["step"] = "CANCELLED" /\ faults' = faults)
     => /\ \A t \in Tasks : task[t].sid = _state'["session_id"]
                            => task[t].page \notin open_browsers'
        /\ DOMAIN _state' \cap InternalKeys = {}
        /\ _state'["status"] = "cancelled"
        /\ files'[_state'["session_id"]] = Snapshot(_state')]_vars

\* C11: the step in which a run of start() ends on an operator-actionable
\* ok=false outcome of the driver (login_timeout, proxy_tunnel_failed,
\* blocked_by_captcha, chat_not_found) leaves the step as it was and does not
\* set the status to error.
ActionableFailureHaltsInStage ==
  [][\A t \in Tasks :
       (/\ task[t].kind = "start"
        /\ task[t].pc # "done" /\ task'[t].pc = "done"
        /\ \/ /\ task[t].pc \in {"login_goto", "login_poll", "product_goto", "fallback"}
              /\ task'[t].res \in {"login_timeout", "proxy_tunnel_failed"}
           \/ task'[t].chat_status \in {"blocked_by_captcha", "chat_not_found"})
       => /\ _state'["step"] = _state["step"]
          /\ _state'["status"] = _state["status"]
          /\ _state'["status"] # "error"]_vars

\* C12: the step in which an exception ends start(), start_login_only() or
\* goto_product() through its except clause leaves the status error, a
\* last_error, a finished_at that is not null, and a session that is no longer
\* running.
ExceptionEndsSessionInError ==
  [][\A t \in Tasks :
       (/\ task[t].pc # "done" /\ task'[t].pc = "done"
        /\ task'[t].kind \in {"start", "login_only", "goto_product"}
        /\ task'[t].result = "error")
       => /\ _state'["status"] = "error"
          /\ _state'["last_error"] # None
          /\ _state'["finished_at"] # None
          /\ ~AlreadyRunning']_vars

\* C13: the lock is held in no state in which a coroutine of start(),
\* start_login_only() or goto_product() is suspended on its behalf: it is
\* locked exactly while a cancel() awaits playwright_driver.stop, a coroutine
\* waits for it only then or until it is woken, and get_status() has its
\* result in every state.
LockHeldOnlyInsideCancel ==
  /\ _lock.locked <=> canceller.pc = "stopping"
  /\ \A t \in Tasks :
       task[t].pc = "wait_lock" <=> \E i \in 1..Len(_lock.waiters) : _lock.waiters[i] = t
  /\ DOMAIN GetStatus = DOMAIN _state \ InternalKeys

\* C13, witness: a cancel() that had to close a browser has completed while
\* the coroutine of the session it cancelled is still suspended in its pipeline
CancelledWhileSuspended ==
  /\ _state["status"] = "cancelled" /\ LockFree /\ canceller.pc = "idle"
  /\ \E t \in Tasks :
       /\ task[t].sid = _state["session_id"]
       /\ task[t].pc \notin {"idle", "wait_lock", "done"}
       /\ task[t].page \notin open_browsers /\ task[t].page # NoHandle

\* C14: in every state, no status.json, no result of get_status() and no
\* session of get_current_session() holds one of the handle keys _pw,
\* _browser, _context, _page, and get_status() holds every other key of the
\* session.
NoInternalFieldExposed ==
  /\ \A sid \in DOMAIN files : DOMAIN files[sid] \cap {"_pw", "_browser", "_context", "_page"} = {}
  /\ DOMAIN GetStatus \cap {"_pw", "_browser", "_context", "_page"} = {}
  /\ DOMAIN GetCurrentSession.session \cap {"_pw", "_browser", "_context", "_page"} = {}
  /\ \A k \in DOMAIN _state \ {"_pw", "_browser", "_context", "_page"} :
       k \in DOMAIN GetStatus /\ GetStatus[k] = _state[k]

\* C14, witness: the session holds all four handles, and its status.json was
\* written while it held them
SavedWhileHoldingHandles ==
  /\ {"_pw", "_browser", "_context", "_page"} \subseteq DOMAIN _state
  /\ _state["session_id"] \in DOMAIN files
  /\ files[_state["session_id"]]["step"] = "ENSURE_LOGIN_TO_WORK_HOME"
  /\ GetCurrentSession.active

\* C15: the step in which an accepted start(), start_login_only() or
\* goto_product() ends, by success, halt or failure, leaves none of the handle
\* fields _pw, _browser, _context, _page in the session.
HandlesRemovedOnExit ==
  [][\A t \in Tasks :
       (/\ task[t].pc # "done" /\ task'[t].pc = "done"
        /\ task'[t].kind \in {"start", "login_only", "goto_product"}
        /\ task'[t].result # "rejected")
       => DOMAIN _state' \cap InternalKeys = {}]_vars

\* C16: with auto-advance on, a coroutine suspended in a gate wait can return
\* from it whether or not the gate is opened, every step that ends a gate wait
\* continues start() after that wait without touching the session, and no
\* TimeoutError is ever recorded.
AutoAdvanceWaitAlwaysReturns ==
  [][AUTO_ADVANCE =>
       /\ \A t \in Tasks :
            /\ task[t].pc = "gate" => (EventIsSet(t) \/ ENABLED GateTimeout(t))
            /\ (task[t].pc = "gate" /\ task'[t].pc # "gate")
               => /\ task'[t].pc = AfterGate(t)
                  /\ task'[t].result = "none"
                  /\ _state' = _state
       /\ _state'["last_error"] # "TimeoutError: "]_vars

\* C16, witness: with auto-advance on, the only run of the behaviour has
\* reached DONE although none of the three gates was ever opened
UnattendedRunDone ==
  /\ AUTO_ADVANCE /\ next_task = 2
  /\ task[1].kind = "start" /\ task[1].result = "DONE" /\ ~task[1].failed
  /\ \A name \in GateNames : name \in DOMAIN _gates /\ ~_gates[name]
  /\ _state["status"] = "done" /\ _state["step"] = "DONE"

\* C17: a coroutine that starts one of the three gate waits of start() waits
\* on an unset Event, whatever the gate held before; with auto-advance off a
\* step continues start() after a gate wait only if the Event the coroutine
\* waits on is set, and an Event is set only by the step of an open_gate on a
\* registry in which it was unset.
GateWaitStartsReset ==
  [][/\ \A t \in Tasks :
          /\ (task[t].pc # "gate" /\ task'[t].pc = "gate")
             => /\ task'[t].gate \in GateNames
                /\ ~task'[t].ev_replaced
                /\ ~_gates'[task'[t].gate]
          /\ (~AUTO_ADVANCE /\ task[t].pc = "gate" /\ task'[t].pc \notin {"gate", "done"})
             => /\ EventIsSet(t)
                /\ task'[t].pc = AfterGate(t)
     /\ \A name \in DOMAIN _gates' :
          (_gates'[name] /\ ~(name \in DOMAIN _gates /\ _gates[name]))
          => /\ _gates' = OpenGateOn(_gates, name)
             /\ task' = task /\ _state' = _state]_vars

\* C17, witness: with auto-advance off, the second run waits at
\* CONFIRM_AFTER_LOGIN on an unset Event after the first run was confirmed
\* through all three gates, the later two of which are still signaled
WaitsDespiteSignaledGate ==
  /\ ~AUTO_ADVANCE
  /\ task[1].kind = "start" /\ task[1].result = "DONE"
  /\ task[2].kind = "start" /\ task[2].pc = "gate"
  /\ task[2].gate = "CONFIRM_AFTER_LOGIN" /\ ~EventIsSet(2)
  /\ _gates["CONFIRM_PRODUCT_AND_CHAT"] /\ _gates["CONFIRM_AFTER_SEND"]

\* C18: with auto-advance off, a step that ends a gate wait whose Event is
\* unset ends start(): the coroutine is done with an error and has sent
\* nothing more, the status is error, last_error names the TimeoutError,
\* finished_at is set and the session is not running.
GateTimeoutEndsInError ==
  [][\A t \in Tasks :
       (/\ ~AUTO_ADVANCE
        /\ task[t].pc = "gate" /\ ~EventIsSet(t) /\ task'[t].pc # "gate")
       => /\ task'[t].pc = "done" /\ task'[t].result = "error"
          /\ task'[t].sends = task[t].sends
          /\ _state'["status"] = "error"
          /\ _state'["last_error"] = "TimeoutError: "
          /\ _state'["finished_at"] # None
          /\ _state'["step"] = _state["step"]
          /\ ~AlreadyRunning'
          /\ files'[_state'["session_id"]]["status"] = "error"]_vars

\* C18, witness: with auto-advance off, a run has ended by the timeout of its
\* second gate wait, before it sent anything
TimedOutAtSecondGate ==
  \E t \in Tasks :
    /\ ~AUTO_ADVANCE
    /\ task[t].pc = "done" /\ task[t].result = "error"
    /\ task[t].gate = "CONFIRM_PRODUCT_AND_CHAT" /\ task[t].sends = << >>
    /\ ~_gates["CONFIRM_PRODUCT_AND_CHAT"]
    /\ _state["session_id"] = task[t].sid
    /\ _state["status"] = "error" /\ _state["last_error"] = "TimeoutError: "
    /\ _state["step"] = "S1_DONE"

\* C19: every call of generate_next_reply returns a dict (no exception
\* escapes) with the keys text, used_model and is_mock and a text that is not
\* empty; when the client is unavailable, the call of the model raises, or
\* the model yields a text that is empty after strip(), the dict is the mock
\* reply: is_mock true, used_model "mock-enhanced"; otherwise it holds the
\* stripped text of the model.
ReplyAlwaysHasText ==
  ai_result.returned =>
    LET r == ai_result.value
    IN  /\ r # Raised
        /\ {"text", "used_model", "is_mock"} \subseteq DOMAIN r
        /\ r.text # "" /\ Len(r.text) > 0
        /\ (~ai_call.available \/ ai_call.model = "raise" \/ Strip(ai_call.model) = "")
           => /\ r.is_mock /\ r.used_model = "mock-enhanced"
              /\ r.text = MockText(ai_call)
        /\ (ai_call.available /\ ~r.is_mock) => r.text = Strip(ai_call.model)

\* C19, witness: the client was available, the history held a message without
\* a role so that the try block raised, and the call returned the mock reply
MockAfterFailedModelCall ==
  /\ ai_result.returned /\ ai_call.available
  /\ ai_call.model = " ok, send your best price. "
  /\ Len(ai_call.history) = MaxHistory /\ "role" \notin DOMAIN ai_call.history[1]
  /\ ai_result.value.is_mock /\ ai_result.value.used_model = "mock-enhanced"
  /\ ai_result.value.text = "en: price confirmed, payment terms?"

\* C20: with auto-advance off, a coroutine enters the chat-open call only
\* from its wait at CONFIRM_AFTER_LOGIN, the wait for the chat and with it the
\* sending of the opener only from its wait at CONFIRM_PRODUCT_AND_CHAT, and
\* the wait for the counterpart's reply only from its wait at
\* CONFIRM_AFTER_SEND, and each time the Event it waited on had been set by an
\* open_gate.
NoStageBeforeGateOpened ==
  [][~AUTO_ADVANCE =>
       \A t \in Tasks :
         LET opened == task[t].pc = "gate"
                       /\ (task[t].ev_replaced \/ _gates[task[t].gate])
         IN  /\ (task[t].pc # "chat_open" /\ task'[t].pc = "chat_open")
                => opened /\ task[t].gate = "CONFIRM_AFTER_LOGIN"
             /\ (task[t].pc # "chat_ready" /\ task'[t].pc = "chat_ready")
                => opened /\ task[t].gate = "CONFIRM_PRODUCT_AND_CHAT"
             /\ (task[t].pc # "send_opener" /\ task'[t].pc = "send_opener")
                => task[t].pc = "chat_ready" /\ task[t].sends = << >>
             /\ task'[t].sends # task[t].sends
                => task[t].pc \in {"send_opener", "send_reply"}
             /\ (task[t].pc # "wait_reply" /\ task'[t].pc = "wait_reply")
                => opened /\ task[t].gate = "CONFIRM_AFTER_SEND"]_vars

\* C20, witness: with auto-advance off, the only run of the behaviour has sent
\* its opener and waits for the counterpart's reply, and all three gates are
\* signaled
ConfirmedThroughAllGates ==
  /\ ~AUTO_ADVANCE /\ next_task = 2
  /\ task[1].kind = "start" /\ task[1].pc = "wait_reply"
  /\ task[1].sends = <<task[1].req.opener_text>>
  /\ \A name \in GateNames : name \in DOMAIN _gates /\ _gates[name]

\* C21: a step that makes S0_DONE the step is the return of a login call with
\* ok=true; a step that makes S1_DONE the step is the return of a chat-open
\* call with ok=true or, later in the run, of the send of the opener; a step
\* that makes DONE the step ends a run whose reply text was sent.
StageAdvancesOnlyOnOk ==
  [][/\ (_state'["step"] = "S0_DONE" /\ _state["step"] # "S0_DONE")
        => \E t \in Tasks :
             /\ task[t].pc \in {"login_goto", "login_poll", "product_goto", "fallback"}
             /\ task'[t].pc = "gate" /\ task'[t].gate = "CONFIRM_AFTER_LOGIN"
             /\ task'[t].res \in {"success", "proxy_tunnel_fallback_success"}
     /\ (_state'["step"] = "S1_DONE" /\ _state["step"] # "S1_DONE")
        => \E t \in Tasks :
             \/ task[t].pc = "chat_open" /\ task'[t].chat_status = "chat_ready"
             \/ task[t].pc = "send_opener" /\ task[t].chat_status = "chat_ready"
     /\ (_state'["step"] = "DONE" /\ _state["step"] # "DONE")
        => \E t \in Tasks :
             /\ task[t].pc = "persist_state" /\ task'[t].result = "DONE"
             /\ Len(task[t].sends) = 2
             /\ \A i \in 1..Len(task[t].unsent) : task[t].unsent[i] # task[t].sends[2]]_vars

\* C22: in every run of start(), nothing was sent up to the send of the
\* opener; from then up to the return of the wait for the counterpart's reply
\* exactly the opener was sent and no reply is held; while the reply is
\* generated and sent exactly the opener was sent and the counterpart's reply
\* is held; and a run that persists its state or has reached DONE has sent the
\* opener and then the generated or fallback reply, and nothing else,
\* whatever max_turns is.
ExactlyOneReplyCycle ==
  \A t \in Tasks :
    task[t].kind = "start" =>
      LET opener == <<task[t].req.opener_text>>
          pc     == task[t].pc
      IN  /\ (pc \in {"get_page", "login_goto", "login_poll", "product_goto", "fallback",
                      "chat_open", "chat_ready", "send_opener"}
              \/ (pc = "gate" /\ task[t].gate # "CONFIRM_AFTER_SEND"))
             => task[t].sends = << >> /\ task[t].supplier_reply = None
          /\ ((pc = "gate" /\ task[t].gate = "CONFIRM_AFTER_SEND") \/ pc = "wait_reply")
             => task[t].sends = opener /\ task[t].supplier_reply = None
          /\ pc \in {"generate", "send_reply"}
             => task[t].sends = opener /\ task[t].supplier_reply # None
          /\ (pc = "persist_state" \/ task[t].result = "DONE")
             => /\ task[t].sends \in {opener \o <<"ai_text">>, opener \o <<FALLBACK_REPLY>>}
                /\ task[t].supplier_reply # None
          /\ Len(task[t].sends) <= 2

\* C22, witness: a run started with max_turns = 2 and a run started without
\* max_turns (so with 6) have both reached DONE after one cycle
OneCycleWhateverMaxTurns ==
  /\ task[1].result = "DONE" /\ task[1].req.max_turns = 0
  /\ task[2].result = "DONE" /\ task[2].req.max_turns = 2
  /\ _state["max_turns"] = 2 /\ _state["turn"] = 0
  /\ Len(task[1].sends) = 2 /\ Len(task[2].sends) = 2

\* C23: a run of start() whose send of the generated reply did not send it
\* has made no further send and, when it has ended, has ended with an error
\* and not in DONE.
FailedReplySendIsError ==
  \A t \in Tasks :
    (/\ task[t].kind = "start" /\ task[t].ai = "text"
     /\ \E i \in 1..Len(task[t].unsent) : task[t].unsent[i] = ReplyText("text"))
    => /\ Len(task[t].sends) = 2
       /\ task[t].pc = "done" => task[t].result = "error"

\* C24: a step in which a run of start() sends a text, or moves on to send the
\* opener, is taken by a run whose wait_for_chat_ready succeeded; the step in
\* which wait_for_chat_ready fails ends the run with nothing sent, the step
\* S1_ERROR written, the status error and the session not running.
NoSendBeforeChatReady ==
  [][\A t \in Tasks :
       /\ task'[t].sends # task[t].sends => task[t].ready = "ok"
       /\ (task[t].pc # "send_opener" /\ task'[t].pc = "send_opener")
          => task[t].pc = "chat_ready" /\ task'[t].ready = "ok"
       /\ (task[t].pc = "chat_ready" /\ task'[t].ready = "failed")
          => /\ task'[t].pc = "done" /\ task'[t].result = "error"
             /\ task'[t].sends = << >>
             /\ _state'["step"] = "S1_ERROR" /\ _state'["status"] = "error"
             /\ _state'["last_error"] = "RuntimeError: Chat interface did not load"
             /\ files'[_state'["session_id"]]["step"] = "S1_ERROR"
             /\ ~AlreadyRunning']_vars

\* C24, witness: the chat-ready wait of a run failed and the run has ended in
\* S1_ERROR with nothing sent
ChatNotReadyEndedRun ==
  \E t \in Tasks :
    /\ task[t].kind = "start" /\ task[t].ready = "failed" /\ task[t].pc = "done"
    /\ task[t].sends = << >> /\ _state["session_id"] = task[t].sid
    /\ _state["step"] = "S1_ERROR" /\ _state["status"] = "error"

\* C25: a coroutine moves on to the navigation to the product only from the
\* first check or the poll of the login predicate and only when that found
\* the user logged in; it leaves the poll only that way or because the page
\* was closed, and then the login call returns ok=false and the coroutine ends
\* without a product navigation.
ProductOnlyAfterLogin ==
  [][\A t \in Tasks :
       /\ (task[t].pc # "product_goto" /\ task'[t].pc = "product_goto")
          => /\ task[t].pc \in {"login_goto", "login_poll"}
             /\ task'[t].login_seen = "logged_in"
       /\ (task[t].pc = "login_poll" /\ task'[t].pc # "login_poll")
          => \/ task'[t].pc = "product_goto"
             \/ /\ task'[t].res = "page_closed" /\ ~LoginResult(task'[t].res).ok
                /\ task'[t].pc = "done" /\ task'[t].result = "error"
                /\ task'[t].nav = "none"
       /\ (task[t].kind \in {"start", "login_only"} /\ task'[t].nav # task[t].nav)
          => task[t].pc = "product_goto" /\ task[t].login_seen = "logged_in"]_vars

\* C25, witness: the first check found the user not logged in, the page was
\* closed during the poll, and the run ended without a product navigation
PageClosedDuringPoll ==
  \E t \in Tasks :
    /\ task[t].login_seen = "not_logged_in" /\ task[t].res = "page_closed"
    /\ task[t].pc = "done" /\ task[t].nav = "none"


\* C26: when the product navigation failed with a proxy-tunnel error and the
\* no-proxy recovery failed as well, for whatever reason, the login operation
\* returns ok=false with type proxy_tunnel_failed
FailedRecoveryIsTunnelFailed ==
  [][\A t \in Tasks :
       (/\ task[t].pc = "fallback" /\ task'[t].pc # "fallback"
        /\ task[t].nav = "tunnel_error"
        /\ task'[t].res # "proxy_tunnel_fallback_success")
       => task'[t].res = "proxy_tunnel_failed"]_vars

\* C27: a failure of the product navigation that is not a proxy-tunnel failure
\* starts no no-proxy recovery and leaves the login operation as the error it
\* was: the operation returns no result descriptor of its own
OtherNavigationErrorPropagates ==
  [][\A t \in Tasks :
       (/\ task[t].pc = "product_goto"
        /\ task'[t].nav \in {"playwright_error", "other_error"})
       => /\ task'[t].pc # "fallback"
          /\ task'[t].fallback_calls = task[t].fallback_calls
          /\ task'[t].res = "none"]_vars

\* C28: a chat-open result with ok=false whose type is none of the known typed
\* outcomes (here type "error") is fatal: the session goes to status error
\* with last_error recorded, and the running slot is released
UnknownChatFailureIsFatal ==
  [][\A t \in Tasks :
       (/\ task[t].pc = "chat_open" /\ task'[t].pc # "chat_open"
        /\ task'[t].chat_status = "error")
       => /\ _state'["status"] = "error"
          /\ _state'["last_error"] # None]_vars

\* C29: an accepted start() or start_login_only() allocates an id of its own
\* and resets the session fields: the status of the new session shows no
\* supplier_reply, ai_reply, ai_reply_used_model, ai_reply_is_mock,
\* ai_reply_error, reply, last_error or finished_at of the session before it,
\* and no style other than the one it was started with
AcceptedStartShowsNoOldResult ==
  [][\A t \in Tasks :
       (/\ task[t].pc \in {"idle", "wait_lock"}
        /\ task'[t].pc \notin {"idle", "wait_lock"}
        /\ task'[t].kind \in {"start", "login_only"}
        /\ task'[t].result # "rejected")
       => /\ _state'["session_id"] = task'[t].sid
          /\ \A k \in {"supplier_reply", "ai_reply", "ai_reply_used_model",
                       "ai_reply_is_mock", "ai_reply_error", "reply",
                       "last_error", "finished_at"} :
                k \in DOMAIN Snapshot(_state') => Snapshot(_state')[k] = None
          /\ "style" \in DOMAIN Snapshot(_state')
                => Snapshot(_state')["style"] = task'[t].req.style]_vars

\* C30: when the login predicate becomes true at some time, every driver and
\* generator call succeeds and every gate is opened after its reset (or
\* auto-advance is on), a run of start() reaches status done at stage DONE
\* with finished_at set
RunEventuallyDone ==
  \A t \in Tasks :
    (task[t].kind = "start" /\ task[t].pc \notin {"idle", "done"})
    ~> (/\ task[t].pc = "done" /\ task[t].result = "DONE"
        /\ _state["session_id"] = task[t].sid
        /\ _state["status"] = "done" /\ _state["step"] = "DONE"
        /\ _state["finished_at"] # None)

\* C30, witness: a run that had to poll for the login and waited at the gates
\* without auto-advance has reached DONE
PolledAndConfirmedRunDone ==
  \E t \in Tasks :
    /\ ~AUTO_ADVANCE
    /\ task[t].login_seen = "logged_in" /\ faults = 1
    /\ task[t].pc = "done" /\ task[t].result = "DONE"
    /\ _state["status"] = "done" /\ _state["step"] = "DONE"
    /\ _state["finished_at"] # None

\* C31: at every suspension point the record persisted under the session id
\* equals the non-internal in-memory state, supplier_reply, ai_reply and
\* ai_reply_used_model included: every mutation was flushed before the
\* workflow suspended
SnapshotEqualsStateWhenSuspended ==
  _state["session_id"] # NoId
  => /\ _state["session_id"] \in DOMAIN files
     /\ files[_state["session_id"]] = Snapshot(_state)

CancelledWorkflowIsSilent ==
  [][\A t \in Tasks :
       (/\ task[t].kind = "start" /\ task[t].pc \notin {"idle", "wait_lock", "done"}
        /\ _state["status"] = "cancelled"
        /\ _state["session_id"] = task[t].sid)
       => /\ task'[t].sends = task[t].sends
          /\ task'[t].pc \in {task[t].pc, "done"}]_vars

\* C34: no wake-up is lost at a gate. An open_gate(name) issued while a
\* workflow is suspended in its wait on that gate makes the Event the
\* workflow holds set, and the Event stays set for as long as the workflow is
\* suspended there, whatever reset_gate(name) calls come before or after the
\* open; a workflow that holds a set Event can be resumed.
NoLostWakeUp ==
  [][\A t \in Tasks :
       (/\ task[t].pc = "gate" /\ task'[t].pc = "gate"
        /\ task'[t].gate = task[t].gate)
       => LET name == task[t].gate
              wasSet == task[t].ev_replaced \/ _gates[name]
              isSet == task'[t].ev_replaced \/ _gates'[name]
          IN  /\ wasSet => isSet
              /\ _gates' = OpenGateOn(_gates, name) => isSet
              /\ _gates' = ResetGateOn(_gates, name) => (isSet <=> wasSet)
              /\ isSet => (ENABLED GateReleased(t))']_vars

\* C34, witness: the gate was opened and then reset while the workflow was
\* still suspended in its wait: the registry holds a fresh unset Event, the
\* workflow the set one
ResetAfterOpenWhileWaiting ==
  \E t \in Tasks :
    /\ task[t].pc = "gate" /\ task[t].ev_replaced
    /\ ~_gates[task[t].gate]

\* C35: after a successful no-proxy recovery the stages that follow (chat
\* open, chat-ready wait, the sends) operate on the recovered page that
\* reached the product URL, not on the page whose navigation failed
StagesUseRecoveredPage ==
  \A t \in Tasks :
    (task[t].recovered # NoHandle /\ task[t].chat_page # NoHandle)
    => /\ task[t].page = task[t].recovered
       /\ task[t].chat_page = task[t].recovered

\* C36: the no-proxy recovery is invoked at most once per login operation, and
\* only after the login is settled and the product navigation failed with a
\* proxy-tunnel error; a proxy-tunnel failure while opening the login entry
\* page returns ok=false with type proxy_tunnel_failed and no recovery attempt
RecoveryOnlyForProductTunnelError ==
  [][\A t \in Tasks :
       /\ task'[t].fallback_calls <= 1
       /\ task'[t].fallback_calls # task[t].fallback_calls
          <=> (task[t].pc # "fallback" /\ task'[t].pc = "fallback")
       /\ (task[t].pc # "fallback" /\ task'[t].pc = "fallback")
          => /\ task[t].pc = "product_goto"
             /\ task[t].login_seen = "logged_in"
             /\ task'[t].nav = "tunnel_error"
             /\ task'[t].fallback_calls = task[t].fallback_calls + 1
       /\ (task[t].pc = "login_goto" /\ task'[t].res = "proxy_tunnel_failed")
          => /\ task'[t].pc = "done" /\ task'[t].result = "error"
             /\ task'[t].fallback_calls = 0 /\ task'[t].nav = "none"]_vars

\* C36, witness: the login entry page could not be opened through the proxy,
\* and the run ended with proxy_tunnel_failed and no recovery
TunnelFailedAtLoginEntry ==
  \E t \in Tasks :
    /\ task[t].res = "proxy_tunnel_failed" /\ task[t].login_seen = "none"
    /\ task[t].nav = "none" /\ task[t].fallback_calls = 0
    /\ task[t].pc = "done" /\ task[t].result = "error"

\* C37: after start_login_only() succeeded the session stays running at
\* stage READY_FOR_PRODUCT with its browser handles retained, so a following
\* start() is rejected as already running; goto_product() is accepted exactly
\* for status running at stage READY_FOR_PRODUCT and otherwise raises without
\* changing the session
ReadySessionTakesOnlyGotoProduct ==
  [][\A t \in Tasks :
       LET ready == _state["status"] = "running" /\ _state["step"] = "READY_FOR_PRODUCT"
           enters == /\ task[t].pc \in {"idle", "wait_lock"}
                     /\ task'[t].pc \notin {"idle", "wait_lock"}
       IN
       /\ (task[t].pc = "persist_login" /\ task'[t].result = "READY")
          => /\ _state'["status"] = "running"
             /\ _state'["step"] = "READY_FOR_PRODUCT"
             /\ _state'["finished_at"] = None
             /\ InternalKeys \subseteq DOMAIN _state'
       /\ (ready /\ enters /\ task'[t].kind \in {"start", "login_only"})
          => /\ task'[t].pc = "done" /\ task'[t].result = "rejected"
             /\ _state' = _state /\ files' = files
       /\ (enters /\ task'[t].kind = "goto_product")
          => IF ready
             THEN task'[t].result # "rejected"
             ELSE /\ task'[t].pc = "done" /\ task'[t].result = "rejected"
                  /\ _state' = _state /\ files' = files]_vars

\* C38: at most one goto_product() navigation is in progress at a time: of
\* two goto_product() calls made concurrently on a session at
\* READY_FOR_PRODUCT only one passes the readiness check, the other is
\* rejected
AtMostOneGotoInProgress ==
  Cardinality({t \in Tasks :
                 /\ task[t].kind = "goto_product"
                 /\ task[t].pc \in {"goto_get_page", "goto_nav", "goto_reopen",
                                     "goto_nav_again", "goto_ready"}}) <= 1

\* C39: two sessions created by successive accepted start() or
\* start_login_only() calls have distinct ids, so the record of an earlier
\* session is never overwritten by the snapshots of a later one: the id an
\* accepted call allocates is the id of no earlier session and has no record
SessionIdsAreDistinct ==
  [][\A t \in Tasks :
       (/\ task[t].pc \in {"idle", "wait_lock"}
        /\ task'[t].pc \notin {"idle", "wait_lock"}
        /\ task'[t].kind \in {"start", "login_only"}
        /\ task'[t].result # "rejected")
       => /\ _state'["session_id"] = task'[t].sid
          /\ task'[t].sid \notin DOMAIN files
          /\ \A u \in Tasks \ {t} : task[u].sid # task'[t].sid]_vars

====
